---- MODULE Spec2Model ----
(***************************************************************************)
(* A model of protodump (github.com/zjx20/protodump):                      *)
(*   - the Scanner of pkg/protodump/scan.go (Scan, findValidStartWithLength,*)
(*     consumeBytes) together with the protowire decoding steps it calls;  *)
(*   - the Renderer of pkg/protodump/proto.go (comments, fields, types,    *)
(*     oneofs, reserved ranges, messages).                                 *)
(* Byte buffers are sequences of naturals in 0..255.  Go offsets are       *)
(* 0-based; the helpers At/Take/Drop translate them.                       *)
(***************************************************************************)
EXTENDS Integers, Sequences, FiniteSets, TLC

VARIABLES
    buffer,       \* the input of Scan, as the caller handed it over
    data,         \* Scan's local `data`: the unconsumed suffix of buffer
    totalOffset,  \* Scan's local `totalOffset`
    results,      \* Scan's `results`, each range as [start, length] in buffer
    pc,           \* position in Scan: "find", "search", "decide", "done"
    index,        \* Scan's `index`: offset of the marker in data
    searchStart,  \* findValidStartWithLength's `searchStart`
    start,        \* result of findValidStartWithLength
    prefixLen,    \* result of findValidStartWithLength
    prefixBytes,  \* result of findValidStartWithLength
    log,          \* what each finished loop iteration printed: its outcome and offsets
    payload,      \* the bytes handed to NewFromBytes, empty when the caller has a descriptor
    descriptorpb, \* the FileDescriptorProto handed to NewFromDescriptor (its `pb`)
    definition,   \* the *ProtoDefinition NewFromDescriptor returned
    err,          \* the error NewFromDescriptor returned, "" for nil
    text,         \* what pd.String() returned
    filename,     \* what pd.Filename() returned
    rpc           \* position of the Renderer's caller: "bytes", "new", "made", "read",
                  \* "named", "failed"

scanVars == <<buffer, data, totalOffset, results, pc, index, searchStart,
              start, prefixLen, prefixBytes, log>>

renderVars == <<payload, descriptorpb, definition, err, text, filename, rpc>>

vars == <<scanVars, renderVars>>

(***************************************************************************)
(* Slices                                                                  *)
(***************************************************************************)
\* s[i] for a 0-based offset i
At(s, i) == s[i + 1]
\* s[:n]
Take(s, n) == SubSeq(s, 1, n)
\* s[n:]
Drop(s, n) == SubSeq(s, n + 1, Len(s))
\* s[lo:hi]
Slice(s, lo, hi) == SubSeq(s, lo + 1, hi)

Max(S) == CHOOSE x \in S : \A y \in S : y <= x
Min(S) == CHOOSE x \in S : \A y \in S : x <= y

(***************************************************************************)
(* Constants of scan.go                                                    *)
(***************************************************************************)
\* const scan = ".proto"
scan == <<46, 112, 114, 111, 116, 111>>
\* const magicByte = 0xa
magicByte == 10
\* minValidLength := len(filename) + 50
MinMargin == 50

\* A search that takes any byte for the first byte of the marker
BytesIndex_Loose(s, sep) ==
    LET hits == {i \in 0..(Len(s) - Len(sep)) :
                    Slice(s, i + 1, i + Len(sep)) = SubSeq(sep, 2, Len(sep))}
    IN  IF hits = {} THEN -1 ELSE Min(hits)

\* bytes.Index(s, sep): offset of the first occurrence of sep in s, or -1
BytesIndex(s, sep) ==
    LET hits == {i \in 0..(Len(s) - Len(sep)) : Slice(s, i, i + Len(sep)) = sep}
    IN  IF hits = {} THEN -1 ELSE Min(hits)

\* bytes.LastIndexByte(s, c): offset of the last c in s, or -1
LastIndexByte(s, c) ==
    LET hits == {i \in 0..(Len(s) - 1) : At(s, i) = c}
    IN  IF hits = {} THEN -1 ELSE Max(hits)

(***************************************************************************)
(* protowire, as called from scan.go.  Error codes are protowire's.        *)
(***************************************************************************)
errCodeTruncated == -1
errCodeFieldNumber == -2
errCodeOverflow == -3
errCodeReserved == -4
errCodeEndGroup == -5
errCodeRecursionDepth == -6
DefaultRecursionLimit == 10000

\* Number of leading bytes of b, among its first 9, that carry the
\* continuation bit.
RECURSIVE ContinuationRun(_, _)
ContinuationRun(b, i) ==
    IF i < 9 /\ i < Len(b) /\ At(b, i) >= 128
    THEN ContinuationRun(b, i + 1)
    ELSE i

\* The width protowire.ConsumeVarint(b) returns: 1..10, or an error code.
VarintWidth(b) ==
    LET c == ContinuationRun(b, 0)
    IN  IF c >= Len(b) THEN errCodeTruncated
        ELSE IF c < 9 THEN c + 1
        ELSE IF At(b, 9) < 2 THEN 10
        ELSE errCodeOverflow

\* Sum of the 7-bit groups of bytes lo..hi-1 (0-based) of b that lie inside
\* the varint of width n, each shifted by 7 per position from lo.
RECURSIVE Groups(_, _, _, _)
Groups(b, lo, hi, n) ==
    IF lo >= hi \/ lo >= n THEN 0
    ELSE (At(b, lo) % 128) + 128 * Groups(b, lo + 1, hi, n)

\* protowire.ConsumeVarint(b).  The uint64 value is kept as
\*   value = lo + 2^28 * p4 + 2^35 * (rest)
\* with lo the low 28 bits (bytes 0..3), p4 the 7 bits of byte 4 and
\* hi = TRUE when any bit from byte 5 on is set.
ConsumeVarint(b) ==
    LET n == VarintWidth(b)
    IN  IF n < 0 THEN [n |-> n, lo |-> 0, p4 |-> 0, hi |-> FALSE]
        ELSE [n  |-> n,
              lo |-> Groups(b, 0, 4, n),
              p4 |-> IF n >= 5 THEN At(b, 4) % 128 ELSE 0,
              hi |-> \E i \in 5..(n - 1) : At(b, i) % 128 # 0]

\* The varint value fits in 28 bits, so int(v) = v.lo
Small(v) == v.p4 = 0 /\ ~v.hi

\* protowire.DecodeTag applied to a consumed varint v, with ConsumeTag's
\* checks: DecodeTag gives -1 for a number above MaxInt32, and a number
\* below MinValidNumber is errCodeFieldNumber.
TagOf(v) ==
    IF v.n < 0 THEN [num |-> 0, typ |-> 0, n |-> v.n]
    ELSE IF v.hi \/ v.p4 >= 64 \/ (v.lo \div 8) + 33554432 * v.p4 < 1
    THEN [num |-> 0, typ |-> 0, n |-> errCodeFieldNumber]
    ELSE [num |-> (v.lo \div 8) + 33554432 * v.p4, typ |-> v.lo % 8, n |-> v.n]

\* protowire.ConsumeTag(b): (Number, Type, n)
ConsumeTag(b) == TagOf(ConsumeVarint(b))

\* protowire.ConsumeBytes, given the consumed length varint m of b: n only
BytesLenOf(b, m) ==
    IF m.n < 0 THEN m.n
    ELSE IF ~Small(m) \/ m.lo > Len(b) - m.n THEN errCodeTruncated
    ELSE m.n + m.lo

\* protowire.ConsumeBytes(b): n only
ConsumeBytesLen(b) == BytesLenOf(b, ConsumeVarint(b))

\* n + m of two consumed lengths, or the error code m
Plus(n, m) == IF m < 0 THEN m ELSE n + m

RECURSIVE consumeFieldValueD(_, _, _, _)
RECURSIVE ConsumeGroup(_, _, _)
\* One turn of the loop of consumeFieldValueD's StartGroupType case, for
\* the tag t consumed from the rest b of the group: the bytes consumed from
\* b up to and including the end group tag, or an error code.
GroupAfterValue(num, b, depth, t, m) ==
    IF m < 0 THEN m ELSE Plus(t.n + m, ConsumeGroup(num, Drop(b, t.n + m), depth))

GroupTurn(num, b, depth, t) ==
    IF t.n < 0 THEN t.n
    ELSE IF t.typ = 4
    THEN (IF num # t.num THEN errCodeEndGroup ELSE t.n)
    ELSE GroupAfterValue(num, b, depth, t,
                         consumeFieldValueD(t.num, t.typ, Drop(b, t.n), depth - 1))

ConsumeGroup(num, b, depth) == GroupTurn(num, b, depth, ConsumeTag(b))

\* protowire.consumeFieldValueD(num, typ, b, depth)
consumeFieldValueD(num, typ, b, depth) ==
    CASE typ = 0 -> ConsumeVarint(b).n
      [] typ = 5 -> (IF Len(b) < 4 THEN errCodeTruncated ELSE 4)
      [] typ = 1 -> (IF Len(b) < 8 THEN errCodeTruncated ELSE 8)
      [] typ = 2 -> ConsumeBytesLen(b)
      [] typ = 3 -> (IF depth < 0 THEN errCodeRecursionDepth
                     ELSE ConsumeGroup(num, b, depth))
      [] typ = 4 -> errCodeEndGroup
      [] OTHER -> errCodeReserved

\* protowire.ConsumeField(b) after its ConsumeTag gave t and its
\* ConsumeFieldValue gave m: (Number, n)
FieldOf(t, m) ==
    IF m < 0 THEN [num |-> 0, n |-> m] ELSE [num |-> t.num, n |-> t.n + m]

FieldAfterTag(b, t) ==
    IF t.n < 0 THEN [num |-> 0, n |-> t.n]
    ELSE FieldOf(t, consumeFieldValueD(t.num, t.typ, Drop(b, t.n), DefaultRecursionLimit))

\* protowire.ConsumeField(b): (Number, n)
ConsumeField(b) == FieldAfterTag(b, ConsumeTag(b))

\* internal/errors: the prefix of every error text of the protobuf module.
\* detrand.Bool() is fixed by the hash of the running binary, so one build
\* prints a space after the colon and another a no-break space (U+00A0).
ErrorPrefix(detrand) == IF detrand THEN "proto: " ELSE "proto: "

\* protowire.ParseError(code).Error(), in a build whose detrand.Bool() is
\* `detrand`
ParseErrorText(code, detrand) ==
    CASE code = errCodeTruncated -> "unexpected EOF"
      [] code = errCodeFieldNumber -> ErrorPrefix(detrand) \o "invalid field number"
      [] code = errCodeOverflow -> ErrorPrefix(detrand) \o "variable length integer overflow"
      [] code = errCodeReserved -> ErrorPrefix(detrand) \o "cannot parse reserved wire type"
      [] code = errCodeEndGroup -> ErrorPrefix(detrand) \o "mismatching end group marker"
      [] OTHER -> ErrorPrefix(detrand) \o "parse error"

\* strings.Contains(s, sub)
StrContains(s, sub) ==
    \E i \in 1..(Len(s) - Len(sub) + 1) : SubSeq(s, i, i + Len(sub) - 1) = sub

(***************************************************************************)
(* consumeBytes                                                            *)
(***************************************************************************)
\* The loop of consumeBytes from `position`, having started at `start0`.
\* Result: [n |-> position - start, err |-> "" (nil) or the error text,
\*          stop |-> why the loop returned].
RECURSIVE consumeLoop(_, _, _, _, _)
\* A turn that consumes a second field-1 record like any other record
consumeTurn_Greedy(d, start0, position, consumedFieldOne, f, detrand) ==
    IF f.n < 0
    THEN IF StrContains(ParseErrorText(f.n, detrand), "invalid field number")
         THEN [n |-> position - start0, err |-> "", stop |-> "fieldnumber"]
         ELSE [n |-> position - start0,
               err |-> "couldn't consume proto bytes: " \o ParseErrorText(f.n, detrand),
               stop |-> "error"]
    ELSE IF f.n = 0
    THEN [n |-> position - start0, err |-> "", stop |-> "zero"]
    ELSE IF (position + f.n) - start0 >= Len(Drop(d, start0))
    THEN [n |-> (position + f.n) - start0, err |-> "", stop |-> "end"]
    ELSE consumeLoop(d, start0, position + f.n, consumedFieldOne \/ f.num = 1, detrand)

\* One turn of the loop, f being what ConsumeField(data[position:]) gave
consumeTurn(d, start0, position, consumedFieldOne, f, detrand) ==
    IF f.n < 0
    THEN IF StrContains(ParseErrorText(f.n, detrand), "invalid field number")
         THEN [n |-> position - start0, err |-> "", stop |-> "fieldnumber"]
         ELSE [n |-> position - start0,
               err |-> "couldn't consume proto bytes: " \o ParseErrorText(f.n, detrand),
               stop |-> "error"]
    ELSE IF f.n = 0
    THEN [n |-> position - start0, err |-> "", stop |-> "zero"]
    ELSE IF f.num = 1 /\ consumedFieldOne
    THEN [n |-> position - start0, err |-> "", stop |-> "fieldone"]
    ELSE IF (position + f.n) - start0 >= Len(Drop(d, start0))
    THEN [n |-> (position + f.n) - start0, err |-> "", stop |-> "end"]
    ELSE consumeLoop(d, start0, position + f.n, consumedFieldOne \/ f.num = 1, detrand)

consumeLoop(d, start0, position, consumedFieldOne, detrand) ==
    consumeTurn(d, start0, position, consumedFieldOne, ConsumeField(Drop(d, position)),
                detrand)

\* consumeBytes(data, position) in a build whose detrand.Bool() is `detrand`
consumeBytes(d, position, detrand) == consumeLoop(d, position, position, FALSE, detrand)

(***************************************************************************)
(* findValidStartWithLength                                                *)
(***************************************************************************)
\* A candidate check that lets the declared length run past the marker
CandidateValid_AnyEnd(d, pos, protoIndex) ==
    /\ pos + 1 < Len(d)
    /\ ConsumeVarint(SubSeq(d, pos + 2, Len(d))).n >= 0
    /\ Small(ConsumeVarint(SubSeq(d, pos + 2, Len(d))))
    /\ pos + 1 + ConsumeVarint(SubSeq(d, pos + 2, Len(d))).n
          + ConsumeVarint(SubSeq(d, pos + 2, Len(d))).lo >= protoIndex + 6
    /\ pos + 1 + ConsumeVarint(SubSeq(d, pos + 2, Len(d))).n < protoIndex + 6

\* A candidate check that also takes a declared length ending before the
\* end of the marker
CandidateValid_Short(d, pos, protoIndex) ==
    /\ pos + 1 < Len(d)
    /\ ConsumeVarint(SubSeq(d, pos + 2, Len(d))).n >= 0
    /\ Small(ConsumeVarint(SubSeq(d, pos + 2, Len(d))))
    /\ pos + 1 + ConsumeVarint(SubSeq(d, pos + 2, Len(d))).n
          + ConsumeVarint(SubSeq(d, pos + 2, Len(d))).lo <= protoIndex + 6
    /\ pos + 1 + ConsumeVarint(SubSeq(d, pos + 2, Len(d))).n < protoIndex + 6
    /\ \A i \in (pos + 1 + ConsumeVarint(SubSeq(d, pos + 2, Len(d))).n)
                 ..(pos + ConsumeVarint(SubSeq(d, pos + 2, Len(d))).n
                        + ConsumeVarint(SubSeq(d, pos + 2, Len(d))).lo) :
          At(d, i) >= 32 /\ At(d, i) <= 126

\* Lines 98-127 for the candidate tag at pos: the varint after the tag, the
\* computed end against the end of the marker, the printable filename.
\* int(filenameLen) of a value of 2^28 or more is either beyond every
\* buffer modelled here or negative; a negative one can meet filenameEnd
\* only with filenameStart > filenameEnd, which line 118 rejects, so both
\* fall through to line 159 like a mismatch.
CandidateValid(d, pos, protoIndex) ==
    LET filenameEnd == protoIndex + Len(scan)
        v == ConsumeVarint(Drop(d, pos + 1))
        filenameStart == pos + 1 + v.n
    IN  /\ pos + 1 < Len(d)
        /\ v.n >= 0
        /\ Small(v)
        /\ pos + 1 + v.n + v.lo = filenameEnd
        /\ filenameStart < Len(d)
        /\ filenameStart < filenameEnd
        /\ \A i \in filenameStart..(filenameEnd - 1) :
              At(d, i) >= 32 /\ At(d, i) <= 126

\* len(filename) at line 133, for a valid candidate
FilenameLen(d, pos, protoIndex) ==
    (protoIndex + Len(scan)) - (pos + 1 + ConsumeVarint(Drop(d, pos + 1)).n)

\* The loop of lines 137-150 from tryLen down: (prefixLen, prefixBytes)
RECURSIVE TryPrefix(_, _, _, _)
TryPrefix(d, pos, minValidLength, tryLen) ==
    IF ~(tryLen >= 1 /\ pos >= tryLen) THEN [prefixLen |-> 0, prefixBytes |-> 0]
    ELSE LET c == ConsumeVarint(Drop(d, pos - tryLen))
         IN  IF /\ c.n = tryLen
                /\ c.lo >= minValidLength
                /\ pos + c.lo <= Len(d)
             THEN [prefixLen |-> c.lo, prefixBytes |-> c.n]
             ELSE TryPrefix(d, pos, minValidLength, tryLen - 1)

\* Lines 133-153: the outer length prefix before a valid start
LengthPrefix(d, pos, protoIndex) ==
    IF pos >= 1
    THEN TryPrefix(d, pos, FilenameLen(d, pos, protoIndex) + MinMargin, 4)
    ELSE [prefixLen |-> 0, prefixBytes |-> 0]

\* A search that gives up at the first 0x0A that fails the checks
SearchTurn_GiveUp(d, protoIndex, ss) ==
    IF ss > 0 /\ LastIndexByte(Take(d, ss), magicByte) # -1
          /\ CandidateValid(d, LastIndexByte(Take(d, ss), magicByte), protoIndex)
    THEN [done |-> TRUE, start |-> LastIndexByte(Take(d, ss), magicByte),
          prefixLen |-> LengthPrefix(d, LastIndexByte(Take(d, ss), magicByte),
                                     protoIndex).prefixLen,
          prefixBytes |-> LengthPrefix(d, LastIndexByte(Take(d, ss), magicByte),
                                       protoIndex).prefixBytes,
          searchStart |-> ss]
    ELSE [done |-> TRUE, start |-> -1, prefixLen |-> 0, prefixBytes |-> 0,
          searchStart |-> ss]

\* One turn of the loop `for searchStart > 0` (lines 82-160):
\*   [done |-> TRUE, start, prefixLen, prefixBytes] when the function returns,
\*   [done |-> FALSE, searchStart] when the loop goes round again.
SearchTurn(d, protoIndex, ss) ==
    LET pos == LastIndexByte(Take(d, ss), magicByte)
        none == [done |-> TRUE, start |-> -1, prefixLen |-> 0, prefixBytes |-> 0,
                 searchStart |-> ss]
    IN  IF ~(ss > 0) THEN none
        ELSE IF pos = -1 THEN none
        ELSE IF CandidateValid(d, pos, protoIndex)
        THEN LET p == LengthPrefix(d, pos, protoIndex)
             IN  [done |-> TRUE, start |-> pos, prefixLen |-> p.prefixLen,
                  prefixBytes |-> p.prefixBytes, searchStart |-> ss]
        ELSE [done |-> FALSE, start |-> -1, prefixLen |-> 0, prefixBytes |-> 0,
              searchStart |-> pos]

(***************************************************************************)
(* Strings (package strings, strconv, fmt)                                 *)
(***************************************************************************)
\* the i-th character of s, 1-based
Char(s, i) == SubSeq(s, i, i)

\* strings.Repeat(s, n)
RECURSIVE Repeat(_, _)
Repeat(s, n) == IF n <= 0 THEN "" ELSE s \o Repeat(s, n - 1)

Digits == <<"0", "1", "2", "3", "4", "5", "6", "7", "8", "9">>

\* decimal digits of n >= 0
RECURSIVE Utoa(_)
Utoa(n) == IF n < 10 THEN Digits[n + 1] ELSE Utoa(n \div 10) \o Digits[(n % 10) + 1]

\* strconv.Itoa(n), fmt.Sprintf("%d", n)
Itoa(n) == IF n < 0 THEN "-" \o Utoa(-n) ELSE Utoa(n)

\* strings.HasSuffix(s, suffix)
HasSuffix(s, suffix) ==
    Len(s) >= Len(suffix) /\ SubSeq(s, Len(s) - Len(suffix) + 1, Len(s)) = suffix

\* strings.TrimSuffix(s, suffix)
TrimSuffix(s, suffix) ==
    IF HasSuffix(s, suffix) THEN SubSeq(s, 1, Len(s) - Len(suffix)) ELSE s

\* unicode.IsSpace on the characters that occur here
IsSpace(c) == c \in {" ", "\n", "\t", "\r"}

\* strings.TrimSpace(s)
TrimSpace(s) ==
    LET keep == {i \in 1..Len(s) : ~IsSpace(Char(s, i))}
    IN  IF keep = {} THEN "" ELSE SubSeq(s, Min(keep), Max(keep))

\* strings.Index(s, sub): 0-based offset of the first sub in s, or -1
StrIndex(s, sub) ==
    LET hits == {i \in 0..(Len(s) - Len(sub)) : SubSeq(s, i + 1, i + Len(sub)) = sub}
    IN  IF hits = {} THEN -1 ELSE Min(hits)

\* strings.Split(s, sep) for a one-character sep
RECURSIVE StrSplit(_, _)
SplitAt(s, sep, i) ==
    IF i = -1 THEN <<s>>
    ELSE <<SubSeq(s, 1, i)>> \o StrSplit(SubSeq(s, i + 2, Len(s)), sep)

StrSplit(s, sep) == SplitAt(s, sep, StrIndex(s, sep))

\* strings.Join(parts, sep)
RECURSIVE StrJoin(_, _)
StrJoin(parts, sep) ==
    IF parts = <<>> THEN ""
    ELSE IF Len(parts) = 1 THEN parts[1]
    ELSE parts[1] \o sep \o StrJoin(Tail(parts), sep)

\* The least int32
MinInt32 == -2147483647 - 1

\* The digit loop of strconv.ParseUint(s, 10, 32) from the i-th character
\* on: minus the value of the digits, m being minus the value of the digits
\* before; 1 for a character that is no digit or a value beyond 2^31
RECURSIVE ParseDigits(_, _, _)
ParseDigits(s, i, m) ==
    IF i > Len(s) THEN m
    ELSE IF StrIndex("0123456789", Char(s, i)) < 0 THEN 1
    ELSE IF m < ((MinInt32 + StrIndex("0123456789", Char(s, i))) \div 10)
                + (IF (MinInt32 + StrIndex("0123456789", Char(s, i))) % 10 = 0 THEN 0 ELSE 1)
    THEN 1
    ELSE ParseDigits(s, i + 1, (m * 10) - StrIndex("0123456789", Char(s, i)))

\* minus the magnitude strconv.ParseInt(s, 10, 32) reads behind the sign,
\* 1 when there is none to read
Magnitude(s) ==
    IF Len(s) = 0 THEN 1
    ELSE IF Char(s, 1) \in {"+", "-"}
    THEN (IF Len(s) = 1 THEN 1 ELSE ParseDigits(s, 2, 0))
    ELSE ParseDigits(s, 1, 0)

\* strconv.ParseInt(s, 10, 32): [ok |-> err == nil, v |-> the value]
ParseInt32(s) ==
    IF Magnitude(s) = 1 \/ (Magnitude(s) = MinInt32 /\ Char(s, 1) # "-")
    THEN [ok |-> FALSE, v |-> 0]
    ELSE [ok |-> TRUE, v |-> IF Char(s, 1) = "-" THEN Magnitude(s) ELSE -Magnitude(s)]

\* fmt.Sprint(v) of an int32
Int32String(v) == IF v = MinInt32 THEN "-2147483648" ELSE Itoa(v)

(***************************************************************************)
(* Package path, as Filename calls it                                      *)
(***************************************************************************)
\* A Base that keeps the directories of the path
Base_Whole(path) == IF path = "" THEN "." ELSE path

\* path.Base(path): trailing slashes stripped, then what follows the last
\* slash; "." for the empty path and "/" for a path of slashes only
Base(path) ==
    LET kept == {i \in 1..Len(path) : Char(path, i) # "/"}
        stripped == IF kept = {} THEN "" ELSE SubSeq(path, 1, Max(kept))
        slashes == {i \in 1..Len(stripped) : Char(stripped, i) = "/"}
        last == IF slashes = {} THEN stripped
                ELSE SubSeq(stripped, Max(slashes) + 1, Len(stripped))
    IN  IF path = "" THEN "."
        ELSE IF last = "" THEN "/"
        ELSE last

\* The ".." case of path.Clean: the buffer backed up to the previous slash
\* but not beyond dotdot, or ".." appended when there is nothing to back up
CleanDotDot(out, dotdot, rooted) ==
    IF Len(out) > dotdot
    THEN SubSeq(out, 1, Max({j \in dotdot..(Len(out) - 1) :
                                j = dotdot \/ Char(out, j + 1) = "/"}))
    ELSE IF ~rooted
    THEN (IF Len(out) > 0 THEN out \o "/" ELSE out) \o ".."
    ELSE out

\* Offset of the slash that ends the element starting at r, or len(path)
ElementEnd(path, r) ==
    Min({j \in r..Len(path) : j = Len(path) \/ Char(path, j + 1) = "/"})

\* The loop `for r < n` of path.Clean; out is the buffer written so far
RECURSIVE CleanLoop(_, _, _, _, _)
CleanLoop(path, r, out, dotdot, rooted) ==
    IF ~(r < Len(path)) THEN out
    ELSE IF Char(path, r + 1) = "/"
    THEN CleanLoop(path, r + 1, out, dotdot, rooted)
    ELSE IF Char(path, r + 1) = "." /\ (r + 1 = Len(path) \/ Char(path, r + 2) = "/")
    THEN CleanLoop(path, r + 1, out, dotdot, rooted)
    ELSE IF /\ Char(path, r + 1) = "."
            /\ Char(path, r + 2) = "."
            /\ (r + 2 = Len(path) \/ Char(path, r + 3) = "/")
    THEN CleanLoop(path, r + 2, CleanDotDot(out, dotdot, rooted),
                   IF Len(out) > dotdot \/ rooted THEN dotdot
                   ELSE Len(CleanDotDot(out, dotdot, rooted)),
                   rooted)
    ELSE CleanLoop(path, ElementEnd(path, r),
                   (IF (rooted /\ Len(out) # 1) \/ (~rooted /\ Len(out) # 0)
                    THEN out \o "/" ELSE out)
                      \o SubSeq(path, r + 1, ElementEnd(path, r)),
                   dotdot, rooted)

\* path.Clean(path)
Clean(path) ==
    IF path = "" THEN "."
    ELSE IF Char(path, 1) = "/"
    THEN CleanLoop(path, 1, "/", 1, TRUE)
    ELSE IF CleanLoop(path, 0, "", 0, FALSE) = "" THEN "."
    ELSE CleanLoop(path, 0, "", 0, FALSE)

\* The buffer path.Join builds from elem[i..]: the elements separated by
\* slashes, leading empty elements left out
RECURSIVE JoinBuf(_, _, _)
JoinBuf(elem, i, buf) ==
    IF i > Len(elem) THEN buf
    ELSE IF Len(buf) > 0 THEN JoinBuf(elem, i + 1, buf \o "/" \o elem[i])
    ELSE JoinBuf(elem, i + 1, elem[i])

\* path.Join(elem...)
Join(elem) ==
    IF \A i \in 1..Len(elem) : elem[i] = "" THEN ""
    ELSE Clean(JoinBuf(elem, 1, ""))

(***************************************************************************)
(* ProtoDefinition: the comment map                                        *)
(***************************************************************************)
\* The nil *CommentInfo
Nil == [nil |-> TRUE]

\* pathKey(path)
pathKey(path) == StrJoin([i \in 1..Len(path) |-> Itoa(path[i])], ".")

\* buildCommentMap: the map of the first n locations, a later location of
\* the same path replacing an earlier one
RECURSIVE CommentMap(_, _)
CommentMap(locs, n) ==
    IF n = 0 THEN [k \in {} |-> Nil]
    ELSE [k \in (DOMAIN CommentMap(locs, n - 1)) \cup {pathKey(locs[n].path)} |->
            IF k = pathKey(locs[n].path)
            THEN [nil |-> FALSE,
                  LeadingComments |-> locs[n].leading_comments,
                  TrailingComments |-> locs[n].trailing_comments,
                  LeadingDetachedComments |-> locs[n].leading_detached_comments]
            ELSE CommentMap(locs, n - 1)[k]]

buildCommentMap(pb) == CommentMap(pb.locations, Len(pb.locations))

\* pd.getComments(path...)
getComments(pd, path) ==
    IF pathKey(path) \in DOMAIN pd.comments THEN pd.comments[pathKey(path)] ELSE Nil

(***************************************************************************)
(* The writers.  A writer of the code appends to pd.builder; its operator  *)
(* here is the text it appends, in order, for the pd it is called with     *)
(* (pd.indendation and pd.comments are what it reads).  pd.write(s)        *)
(* appends s, so a sequence of writes is the concatenation of their texts. *)
(***************************************************************************)
\* pd.writeIndented(s)
writeIndented(pd, s) == Repeat("  ", pd.indendation) \o s

\* pd.indent(), pd.dedent()
indent(pd) == [pd EXCEPT !.indendation = @ + 1]
dedent(pd) == [pd EXCEPT !.indendation = @ - 1]

\* The loop of writeComment over lines[i..]
RECURSIVE writeCommentLines(_, _, _)
writeCommentLines(pd, lines, i) ==
    IF i > Len(lines) THEN ""
    ELSE writeIndented(pd, "//") \o lines[i] \o "\n" \o writeCommentLines(pd, lines, i + 1)

\* pd.writeComment(comment)
writeComment(pd, comment) ==
    IF comment = "" THEN ""
    ELSE writeCommentLines(pd, StrSplit(TrimSuffix(comment, "\n"), "\n"), 1)

\* The loop of writeLeadingComments over the detached comments
RECURSIVE writeDetached(_, _, _)
writeDetached(pd, detached, i) ==
    IF i > Len(detached) THEN ""
    ELSE writeComment(pd, detached[i]) \o "\n" \o writeDetached(pd, detached, i + 1)

\* Lines 73-86 of writeLeadingComments for the info found
writeLeadingOf(pd, info) ==
    IF info.nil THEN ""
    ELSE writeDetached(pd, info.LeadingDetachedComments, 1)
         \o (IF info.LeadingComments # "" THEN writeComment(pd, info.LeadingComments) ELSE "")

\* pd.writeLeadingComments(path...)
writeLeadingComments(pd, path) == writeLeadingOf(pd, getComments(pd, path))

\* A trailing comment written whatever its lines
writeTrimmedTrailing_Always(comment) ==
    IF comment # "" THEN " //" \o comment ELSE ""

\* Lines 98-105 of writeTrailingComment for the trimmed comment
writeTrimmedTrailing(comment) ==
    IF comment # "" /\ ~StrContains(TrimSuffix(comment, "\n"), "\n")
    THEN " //" \o TrimSuffix(comment, "\n")
    ELSE ""

\* Lines 92-97 of writeTrailingComment for the info found
writeTrailingOf(info) ==
    IF info.nil THEN ""
    ELSE IF info.TrailingComments = "" THEN ""
    ELSE writeTrimmedTrailing(TrimSpace(info.TrailingComments))

\* pd.writeTrailingComment(path...)
writeTrailingComment(pd, path) == writeTrailingOf(getComments(pd, path))

(***************************************************************************)
(* protoreflect descriptors, as protodesc builds them from the             *)
(* FileDescriptorProto pd.pb.  A field is handed around with the message   *)
(* m it belongs to and the full name mfull of that message.                *)
(***************************************************************************)
\* protowire.MaxValidNumber
MaxValidNumber == 536870911

\* descriptor.Syntax().String()
SyntaxString(pb) == IF pb.syntax = "" THEN "proto2" ELSE pb.syntax

\* FullName of a child called name under the parent full name
ChildName(parent, name) == IF parent = "" THEN name ELSE parent \o "." \o name

\* field.Kind().String(): protoreflect has the Kind of the wire type only;
\* a map field is a repeated field of Kind "message"
KindString(field) == field.type

\* field.Cardinality().String()
CardinalityString(field) == field.label

\* field.ContainingOneof() != nil
InOneof(field) == field.oneof_index >= 0

\* field.HasOptionalKeyword()
HasOptionalKeyword(pb, field) ==
    \/ (SyntaxString(pb) = "proto2" /\ field.label = "optional" /\ ~InOneof(field))
    \/ field.proto3_optional

\* oneof.Fields(): indices (0-based) into message.Fields() of the members
OneofFieldIndices(m, oneofIdx) ==
    {i \in 0..(Len(m.field) - 1) : m.field[i + 1].oneof_index = oneofIdx}

\* fieldIndexMap[name] (lines 464-468): the last index of a field called name
fieldIndexMap(m, name) ==
    Max({i \in 0..(Len(m.field) - 1) : m.field[i + 1].name = name})

\* members of a set of integers in increasing order
RECURSIVE Sorted(_)
Sorted(S) == IF S = {} THEN <<>> ELSE <<Min(S)>> \o Sorted(S \ {Min(S)})

\* A renderer that knows no synthetic oneof
IsSynthetic_Never(pb, m, oneofIdx) == FALSE

\* oneof.IsSynthetic()
IsSynthetic(pb, m, oneofIdx) ==
    /\ SyntaxString(pb) = "proto3"
    /\ Cardinality(OneofFieldIndices(m, oneofIdx)) = 1
    /\ \A i \in OneofFieldIndices(m, oneofIdx) : HasOptionalKeyword(pb, m.field[i + 1])

(***************************************************************************)
(* protodesc, steps 1 and 2 of FileOptions.New: the declarations of a file *)
(* by full name, and the resolution of type names against them.  The       *)
(* descriptors modelled have fields of kind int32, bool, string, enum and  *)
(* message, no extensions, no groups and no weak or packed options; the    *)
(* names are ASCII.                                                        *)
(***************************************************************************)
\* "_", the letters and the digits: the characters of an identifier
IdentChars == "_abcdefghijklmnopqrstuvwxyzABCDEFGHIJKLMNOPQRSTUVWXYZ0123456789"

\* unicode.ToLower(c), unicode.ToUpper(c)
ToLower(c) ==
    IF Len(c) = 1 /\ StrIndex(IdentChars, c) \in 27..52
    THEN Char(IdentChars, StrIndex(IdentChars, c) - 25) ELSE c
ToUpper(c) ==
    IF Len(c) = 1 /\ StrIndex(IdentChars, c) \in 1..26
    THEN Char(IdentChars, StrIndex(IdentChars, c) + 27) ELSE c

\* fmt's %q (strconv.Quote) of a string of printable ASCII characters
RECURSIVE Escaped(_, _)
Escaped(s, i) ==
    IF i > Len(s) THEN ""
    ELSE (IF Char(s, i) \in {"\"", "\\"} THEN "\\" ELSE "") \o Char(s, i) \o Escaped(s, i + 1)

Quote(s) == "\"" \o Escaped(s, 1) \o "\""

\* protoreflect.Name.IsValid: a letter or "_", then letters, digits and "_"
NameIsValid(s) ==
    /\ Len(s) > 0
    /\ StrIndex(IdentChars, Char(s, 1)) \in 0..52
    /\ \A i \in 2..Len(s) : StrIndex(IdentChars, Char(s, i)) >= 0

\* protoreflect.FullName.IsValid: valid names joined by dots
FullNameIsValid(s) ==
    \A i \in 1..Len(StrSplit(s, ".")) : NameIsValid(StrSplit(s, ".")[i])

\* protoreflect.FullName.Parent
Parent(full) ==
    IF \A i \in 1..Len(full) : Char(full, i) # "." THEN ""
    ELSE SubSeq(full, 1, Max({i \in 1..Len(full) : Char(full, i) = "."}) - 1)

\* A declaration as descsByName.makeBase sees it: the full name of its
\* parent, its own name, the full name it is registered under, and the
\* DescriptorProto or EnumDescriptorProto it was made from
Decl(kind, parent, scope, name, desc) ==
    [kind |-> kind, parent |-> parent, name |-> name, full |-> ChildName(scope, name),
     desc |-> desc]

\* The fields or oneofs of a message, the values of an enum, the methods of
\* a service; oneof_decl holds the names themselves
RECURSIVE ChildDecls(_, _, _, _, _)
ChildDecls(kind, parent, scope, xs, i) ==
    IF i > Len(xs) THEN <<>>
    ELSE <<Decl(kind, parent, scope, IF kind = "oneof" THEN xs[i] ELSE xs[i].name, Nil)>>
         \o ChildDecls(kind, parent, scope, xs, i + 1)

\* initEnumDeclarations: each enum, then its values, which are siblings of
\* the enum in the namespace
RECURSIVE EnumDecls(_, _, _)
EnumDecls(scope, es, i) ==
    IF i > Len(es) THEN <<>>
    ELSE <<Decl("enum", scope, scope, es[i].name, es[i])>>
         \o ChildDecls("enum value", ChildName(scope, es[i].name),
                       Parent(ChildName(scope, es[i].name)), es[i].value, 1)
         \o EnumDecls(scope, es, i + 1)

\* initMessagesDeclarations: each message, then its fields, oneofs, nested
\* enums and nested messages
RECURSIVE MessageDecls(_, _, _)
MessageDecls(scope, ms, i) ==
    IF i > Len(ms) THEN <<>>
    ELSE <<Decl("message", scope, scope, ms[i].name, ms[i])>>
         \o ChildDecls("field", ChildName(scope, ms[i].name), ChildName(scope, ms[i].name),
                       ms[i].field, 1)
         \o ChildDecls("oneof", ChildName(scope, ms[i].name), ChildName(scope, ms[i].name),
                       ms[i].oneof_decl, 1)
         \o EnumDecls(ChildName(scope, ms[i].name), ms[i].enum_type, 1)
         \o MessageDecls(ChildName(scope, ms[i].name), ms[i].nested_type, 1)
         \o MessageDecls(scope, ms, i + 1)

\* initServiceDeclarations: each service, then its methods
RECURSIVE ServiceDecls(_, _, _)
ServiceDecls(scope, ss, i) ==
    IF i > Len(ss) THEN <<>>
    ELSE <<Decl("service", scope, scope, ss[i].name, Nil)>>
         \o ChildDecls("method", ChildName(scope, ss[i].name), ChildName(scope, ss[i].name),
                       ss[i].method, 1)
         \o ServiceDecls(scope, ss, i + 1)

\* Step 1: the declarations of the file in the order they are registered
Decls(pb) ==
    EnumDecls(pb.package, pb.enum_type, 1)
    \o MessageDecls(pb.package, pb.message_type, 1)
    \o ServiceDecls(pb.package, pb.service, 1)

\* The error of makeBase for the first declaration from the i-th on that
\* has an invalid name or a full name registered before, "" when none has
RECURSIVE makeBase(_, _)
makeBase(ds, i) ==
    IF i > Len(ds) THEN ""
    ELSE IF ~NameIsValid(ds[i].name)
    THEN "descriptor " \o Quote(ds[i].parent) \o " has an invalid nested name: "
         \o Quote(ds[i].name)
    ELSE IF \E j \in 1..(i - 1) : ds[j].full = ds[i].full
    THEN "descriptor " \o Quote(ds[i].full) \o " already declared"
    ELSE makeBase(ds, i + 1)

\* partialName.IsFull, partialName.FullName
IsFull(ref) == Len(ref) > 0 /\ Char(ref, 1) = "."
PartialFullName(ref) == IF IsFull(ref) THEN SubSeq(ref, 2, Len(ref)) ELSE "*." \o ref

\* The loop of resolver.findDescriptor: the index in ds of the declaration
\* `name` refers to from `scope`, looked up scope by scope outwards; 0 when
\* there is none (the registry of NewFromDescriptor is empty)
RECURSIVE findInScopes(_, _, _)
findInScopes(ds, scope, name) ==
    IF \E i \in 1..Len(ds) : ds[i].full = ChildName(scope, name)
    THEN Min({i \in 1..Len(ds) : ds[i].full = ChildName(scope, name)})
    ELSE IF scope = "" THEN 0
    ELSE findInScopes(ds, Parent(scope), name)

\* resolver.findDescriptor(scope, ref) for a valid ref
findDescriptor(ds, scope, ref) ==
    IF IsFull(ref) THEN findInScopes(ds, "", SubSeq(ref, 2, Len(ref)))
    ELSE findInScopes(ds, scope, ref)

\* The error of resolver.findEnumDescriptor (want = "enum") and
\* resolver.findMessageDescriptor (want = "message") under AllowUnresolvable:
\* a ref that is no name (partialName.IsValid) is an error, a name that is
\* not found becomes a placeholder
findTargetError(ds, want, scope, ref) ==
    IF ~FullNameIsValid(IF IsFull(ref) THEN SubSeq(ref, 2, Len(ref)) ELSE ref)
    THEN "invalid name reference: " \o Quote(ref)
    ELSE IF findDescriptor(ds, scope, ref) = 0 THEN ""
    ELSE IF ds[findDescriptor(ds, scope, ref)].kind # want
    THEN "resolved " \o Quote(ds[findDescriptor(ds, scope, ref)].full)
         \o ", but it is not an " \o want
    ELSE ""

\* field.Message().FullName(), field.Enum().FullName(), method.Input()
\* .FullName(): the full name of the declaration the type name ref was
\* resolved to from scope, or of its placeholder
TypeFullName(pd, scope, ref) ==
    IF findDescriptor(pd.descriptor, scope, ref) = 0 THEN PartialFullName(ref)
    ELSE pd.descriptor[findDescriptor(pd.descriptor, scope, ref)].full

\* field.Message(): the declaration the type name of a message field is
\* resolved to, as its index in pd.descriptor; 0 for nil (a field of another
\* kind) and for a placeholder, which is no map entry
FieldMessage(pd, mfull, field) ==
    IF field.type # "message" THEN 0
    ELSE findDescriptor(pd.descriptor, mfull, field.type_name)

\* field.IsMap(): fd.Message() != nil && fd.Message().IsMapEntry()
IsMap(pd, mfull, field) ==
    /\ FieldMessage(pd, mfull, field) # 0
    /\ pd.descriptor[FieldMessage(pd, mfull, field)].kind = "message"
    /\ pd.descriptor[FieldMessage(pd, mfull, field)].desc.map_entry

\* Fields().ByNumber(n): nil when no field has the number n
ByNumber(fields, n) ==
    IF \A k \in 1..Len(fields) : fields[k].number # n THEN Nil
    ELSE fields[CHOOSE k \in 1..Len(fields) : fields[k].number = n]

\* field.MapKey(), field.MapValue(): nil unless the field is a map, else the
\* fields numbered 1 and 2 of the entry message
MapKey(pd, mfull, field) ==
    IF ~IsMap(pd, mfull, field) THEN Nil
    ELSE ByNumber(pd.descriptor[FieldMessage(pd, mfull, field)].desc.field, 1)
MapValue(pd, mfull, field) ==
    IF ~IsMap(pd, mfull, field) THEN Nil
    ELSE ByNumber(pd.descriptor[FieldMessage(pd, mfull, field)].desc.field, 2)

(***************************************************************************)
(* ProtoDefinition: fields, oneofs, enums, messages                        *)
(***************************************************************************)
\* pd.writeType(field); mfull and m are the message the field belongs to
RECURSIVE writeType(_, _, _, _)
writeType(pd, mfull, m, field) ==
    IF KindString(field) = "message" THEN "." \o TypeFullName(pd, mfull, field.type_name)
    ELSE IF KindString(field) = "enum" THEN "." \o TypeFullName(pd, mfull, field.type_name)
    ELSE IF KindString(field) = "map"
    THEN "map<"
         \o writeType(pd, pd.descriptor[FieldMessage(pd, mfull, field)].full,
                      pd.descriptor[FieldMessage(pd, mfull, field)].desc,
                      MapKey(pd, mfull, field))
         \o ", "
         \o writeType(pd, pd.descriptor[FieldMessage(pd, mfull, field)].full,
                      pd.descriptor[FieldMessage(pd, mfull, field)].desc,
                      MapValue(pd, mfull, field))
         \o ">"
    ELSE KindString(field)

\* Lines 296-302 of writeFieldWithPath: the label
LabelText(pd, field) ==
    IF HasOptionalKeyword(pd.pb, field) THEN "optional "
    ELSE IF CardinalityString(field) = "repeated" THEN "repeated "
    ELSE IF CardinalityString(field) = "required" /\ SyntaxString(pd.pb) = "proto2"
    THEN "required "
    ELSE ""

\* Lines 308-320 of writeFieldWithPath: the default value.  field.Default()
\* is the value unmarshalDefault parsed from default_value, printed by
\* Value.String(); field.DefaultEnumValue().Name() is the name default_value
\* holds, of a value of the enum or of a placeholder
DefaultText(field) ==
    IF ~field.has_default THEN ""
    ELSE IF KindString(field) = "string"
    THEN " [default = \"" \o field.default_value \o "\"]"
    ELSE IF KindString(field) = "int32"
    THEN " [default = " \o Int32String(ParseInt32(field.default_value).v) \o "]"
    ELSE " [default = " \o field.default_value \o "]"

\* pd.writeFieldWithPath(field, msgPath, fieldIdx)
writeFieldWithPath(pd, mfull, m, msgPath, fieldIdx) ==
    writeLeadingComments(pd, msgPath \o <<2, fieldIdx>>)
    \o writeIndented(pd, "")
    \o LabelText(pd, m.field[fieldIdx + 1])
    \o writeType(pd, mfull, m, m.field[fieldIdx + 1])
    \o " "
    \o m.field[fieldIdx + 1].name
    \o " = "
    \o Itoa(m.field[fieldIdx + 1].number)
    \o DefaultText(m.field[fieldIdx + 1])
    \o ";"
    \o writeTrailingComment(pd, msgPath \o <<2, fieldIdx>>)
    \o "\n"

\* The loop of writeOneofWithPath over the members idxs[i..] of the oneof
RECURSIVE writeOneofFields(_, _, _, _, _, _)
writeOneofFields(pd, mfull, m, msgPath, idxs, i) ==
    IF i > Len(idxs) THEN ""
    ELSE writeFieldWithPath(pd, mfull, m, msgPath,
                            fieldIndexMap(m, m.field[idxs[i] + 1].name))
         \o writeOneofFields(pd, mfull, m, msgPath, idxs, i + 1)

\* pd.writeOneofWithPath(oneof, msgPath, oneofIdx, fieldIndexMap)
writeOneofWithPath(pd, mfull, m, msgPath, oneofIdx) ==
    IF IsSynthetic(pd.pb, m, oneofIdx)
    THEN writeFieldWithPath(
           pd, mfull, m, msgPath,
           fieldIndexMap(m, m.field[Min(OneofFieldIndices(m, oneofIdx)) + 1].name))
    ELSE writeLeadingComments(pd, msgPath \o <<8, oneofIdx>>)
         \o writeIndented(pd, "")
         \o "oneof "
         \o m.oneof_decl[oneofIdx + 1]
         \o " {\n"
         \o writeOneofFields(indent(pd), mfull, m, msgPath,
                             Sorted(OneofFieldIndices(m, oneofIdx)), 1)
         \o writeIndented(dedent(indent(pd)), "}")
         \o writeTrailingComment(pd, msgPath \o <<8, oneofIdx>>)
         \o "\n"

\* One value of writeEnumWithPath (lines 373-382)
writeEnumValue(pd, e, enumPath, i) ==
    writeLeadingComments(pd, enumPath \o <<2, i>>)
    \o writeIndented(pd, e.value[i + 1].name)
    \o " = "
    \o Itoa(e.value[i + 1].number)
    \o ";"
    \o writeTrailingComment(pd, enumPath \o <<2, i>>)
    \o "\n"

RECURSIVE writeEnumValues(_, _, _, _)
writeEnumValues(pd, e, enumPath, i) ==
    IF i >= Len(e.value) THEN ""
    ELSE writeEnumValue(pd, e, enumPath, i) \o writeEnumValues(pd, e, enumPath, i + 1)

\* The path of writeEnumWithPath (lines 358-365)
EnumPath(basePath, enumIdx, isNested) ==
    IF isNested THEN basePath \o <<4, enumIdx>> ELSE <<5, enumIdx>>

\* pd.writeEnumWithPath(enum, basePath, enumIdx, isNested)
writeEnumWithPath(pd, e, basePath, enumIdx, isNested) ==
    writeLeadingComments(pd, EnumPath(basePath, enumIdx, isNested))
    \o writeIndented(pd, "enum ")
    \o e.name
    \o " {\n"
    \o writeEnumValues(indent(pd), e, EnumPath(basePath, enumIdx, isNested), 0)
    \o writeIndented(dedent(indent(pd)), "}")
    \o writeTrailingComment(pd, EnumPath(basePath, enumIdx, isNested))
    \o "\n\n"

\* A range left as it is stored, its end exclusive
NormalRange_Exclusive(r) == r

\* Lines 432-436: the range as Get(i) returns it, a copy, then swapped when
\* out of order and its end made inclusive
NormalRange(r) ==
    IF r[1] > r[2] THEN <<r[2], r[1] - 1>> ELSE <<r[1], r[2] - 1>>

\* Lines 437-447 for the normalised range r
RangeText(r) ==
    IF r[1] = r[2] THEN Itoa(r[1])
    ELSE Itoa(r[1]) \o " to " \o (IF r[2] = MaxValidNumber THEN "max" ELSE Itoa(r[2]))

\* One turn of the loop over message.ReservedRanges() (lines 430-449)
writeReservedRange(pd, range) ==
    writeIndented(pd, "reserved ") \o RangeText(NormalRange(range)) \o ";\n"

RECURSIVE writeReservedRanges(_, _, _)
writeReservedRanges(pd, m, i) ==
    IF i >= Len(m.reserved_range) THEN ""
    ELSE writeReservedRange(pd, m.reserved_range[i + 1]) \o writeReservedRanges(pd, m, i + 1)

\* The loop over message.ReservedNames() (lines 423-428)
RECURSIVE writeReservedNames(_, _, _)
writeReservedNames(pd, m, i) ==
    IF i >= Len(m.reserved_name) THEN ""
    ELSE writeIndented(pd, "reserved \"") \o m.reserved_name[i + 1] \o "\";\n"
         \o writeReservedNames(pd, m, i + 1)

\* The loop over message.Enums() (lines 457-459)
RECURSIVE writeNestedEnums(_, _, _, _)
writeNestedEnums(pd, m, msgPath, i) ==
    IF i >= Len(m.enum_type) THEN ""
    ELSE writeEnumWithPath(pd, m.enum_type[i + 1], msgPath, i, TRUE)
         \o writeNestedEnums(pd, m, msgPath, i + 1)

\* The loop over the fields outside any oneof (lines 471-476)
RECURSIVE writePlainFields(_, _, _, _, _)
writePlainFields(pd, mfull, m, msgPath, i) ==
    IF i >= Len(m.field) THEN ""
    ELSE (IF ~InOneof(m.field[i + 1]) THEN writeFieldWithPath(pd, mfull, m, msgPath, i)
          ELSE "")
         \o writePlainFields(pd, mfull, m, msgPath, i + 1)

\* The loop over message.Oneofs() (lines 479-481)
RECURSIVE writeOneofs(_, _, _, _, _)
writeOneofs(pd, mfull, m, msgPath, i) ==
    IF i >= Len(m.oneof_decl) THEN ""
    ELSE writeOneofWithPath(pd, mfull, m, msgPath, i)
         \o writeOneofs(pd, mfull, m, msgPath, i + 1)

\* The path of writeMessageWithPath (lines 408-415)
MessagePath(basePath, msgIdx, isNested) ==
    IF isNested THEN basePath \o <<3, msgIdx>> ELSE <<4, msgIdx>>

RECURSIVE writeMessageWithPath(_, _, _, _, _, _)
\* The loop over message.Messages() (lines 452-454)
RECURSIVE writeNestedMessages(_, _, _, _, _)
writeNestedMessages(pd, mfull, m, msgPath, i) ==
    IF i >= Len(m.nested_type) THEN ""
    ELSE writeMessageWithPath(pd, mfull, m.nested_type[i + 1], msgPath, i, TRUE)
         \o writeNestedMessages(pd, mfull, m, msgPath, i + 1)

\* The body of a message (lines 417-486), mfull being its full name
writeMessageBody(pd, mfull, m, msgPath) ==
    writeLeadingComments(pd, msgPath)
    \o writeIndented(pd, "message ")
    \o m.name
    \o " {\n"
    \o writeReservedNames(indent(pd), m, 0)
    \o writeReservedRanges(indent(pd), m, 0)
    \o writeNestedMessages(indent(pd), mfull, m, msgPath, 0)
    \o writeNestedEnums(indent(pd), m, msgPath, 0)
    \o writePlainFields(indent(pd), mfull, m, msgPath, 0)
    \o writeOneofs(indent(pd), mfull, m, msgPath, 0)
    \o writeIndented(dedent(indent(pd)), "}")
    \o writeTrailingComment(pd, msgPath)
    \o "\n\n"

\* pd.writeMessageWithPath(message, basePath, msgIdx, isNested); parent is
\* the full name of what the message is declared in
writeMessageWithPath(pd, parent, m, basePath, msgIdx, isNested) ==
    writeMessageBody(pd, ChildName(parent, m.name), m, MessagePath(basePath, msgIdx, isNested))

(***************************************************************************)
(* ProtoDefinition: services, imports, options, the file                   *)
(***************************************************************************)
\* pd.writeMethodWithPath(method, servicePath, methodIdx); the types of a
\* method are resolved from the full name of its service
writeMethodWithPath(pd, service, method, servicePath, methodIdx) ==
    writeLeadingComments(pd, servicePath \o <<2, methodIdx>>)
    \o writeIndented(pd, "rpc ")
    \o method.name
    \o " ("
    \o (IF method.client_streaming THEN "stream " ELSE "")
    \o "."
    \o TypeFullName(pd, ChildName(pd.pb.package, service.name), method.input_type)
    \o ") returns ("
    \o (IF method.server_streaming THEN "stream " ELSE "")
    \o "."
    \o TypeFullName(pd, ChildName(pd.pb.package, service.name), method.output_type)
    \o ") {}"
    \o writeTrailingComment(pd, servicePath \o <<2, methodIdx>>)
    \o "\n"

RECURSIVE writeMethods(_, _, _, _)
writeMethods(pd, service, servicePath, i) ==
    IF i >= Len(service.method) THEN ""
    ELSE writeMethodWithPath(pd, service, service.method[i + 1], servicePath, i)
         \o writeMethods(pd, service, servicePath, i + 1)

\* pd.writeServiceWithPath(service, serviceIdx)
writeServiceWithPath(pd, service, serviceIdx) ==
    writeLeadingComments(pd, <<6, serviceIdx>>)
    \o "service "
    \o service.name
    \o " {\n"
    \o writeMethods(indent(pd), service, <<6, serviceIdx>>, 0)
    \o writeIndented(dedent(indent(pd)), "}\n\n")

\* pd.writeImport(fileImport)
writeImport(path, isPublic) ==
    "import " \o (IF isPublic THEN "public " ELSE "") \o "\"" \o path \o "\";\n"

\* strings.ReplaceAll(s, old, new) for a one-character old
RECURSIVE ReplaceAll(_, _, _)
ReplaceAll(s, old, new) ==
    IF s = "" THEN ""
    ELSE (IF Char(s, 1) = old THEN new ELSE Char(s, 1))
         \o ReplaceAll(SubSeq(s, 2, Len(s)), old, new)

\* pd.writeStringFileOptions(name, value)
writeStringFileOptions(name, value) ==
    "option " \o name \o " = \"" \o ReplaceAll(value, "\\", "\\\\") \o "\";\n"

\* strconv.FormatBool(b)
FormatBool(b) == IF b THEN "true" ELSE "false"

\* pd.writeBoolFileOptions(name, value)
writeBoolFileOptions(name, value) ==
    "option " \o name \o " = " \o FormatBool(value) \o ";\n"

\* The table of writeFileOptions
optionDefinitions == <<
    [OptionName |-> "java_package", FieldName |-> "JavaPackage"],
    [OptionName |-> "java_outer_classname", FieldName |-> "JavaOuterClassname"],
    [OptionName |-> "java_multiple_files", FieldName |-> "JavaMultipleFiles"],
    [OptionName |-> "java_string_check_utf8", FieldName |-> "JavaStringCheckUtf8"],
    [OptionName |-> "go_package", FieldName |-> "GoPackage"],
    [OptionName |-> "cc_enable_arenas", FieldName |-> "CcEnableArenas"],
    [OptionName |-> "objc_class_prefix", FieldName |-> "ObjcClassPrefix"],
    [OptionName |-> "csharp_namespace", FieldName |-> "CsharpNamespace"],
    [OptionName |-> "swift_prefix", FieldName |-> "SwiftPrefix"],
    [OptionName |-> "php_class_prefix", FieldName |-> "PhpClassPrefix"],
    [OptionName |-> "php_namespace", FieldName |-> "PhpNamespace"],
    [OptionName |-> "php_metadata_namespace", FieldName |-> "PhpMetadataNamespace"],
    [OptionName |-> "ruby_package", FieldName |-> "RubyPackage"] >>

\* One option that is set: elem is [kind, s, b], a *string or a *bool (kind
\* "nil" stands for the nil pointer of an option that is not set)
writeOption(name, elem) ==
    IF elem.kind = "string" THEN writeStringFileOptions(name, elem.s)
    ELSE IF elem.kind = "bool" THEN writeBoolFileOptions(name, elem.b)
    ELSE ""

\* The loop of writeFileOptions from entry i on, and the blank line after it
RECURSIVE writeOptionsFrom(_, _, _)
writeOptionsFrom(set, i, printedOption) ==
    IF i > Len(optionDefinitions)
    THEN (IF printedOption THEN "\n" ELSE "")
    ELSE IF set[optionDefinitions[i].FieldName].kind # "nil"
    THEN writeOption(optionDefinitions[i].OptionName, set[optionDefinitions[i].FieldName])
         \o writeOptionsFrom(set, i + 1, TRUE)
    ELSE writeOptionsFrom(set, i + 1, printedOption)

\* pd.writeFileOptions()
writeFileOptions(pd) ==
    IF pd.pb.options.nil THEN ""
    ELSE writeOptionsFrom(pd.pb.options.set, 1, FALSE)

\* Lines 637-643: the imports and the blank line after them
RECURSIVE writeImports(_, _)
writeImports(pd, i) ==
    IF i >= Len(pd.pb.dependency)
    THEN (IF Len(pd.pb.dependency) > 0 THEN "\n" ELSE "")
    ELSE writeImport(pd.pb.dependency[i + 1],
                     \E k \in 1..Len(pd.pb.public_dependency) : pd.pb.public_dependency[k] = i)
         \o writeImports(pd, i + 1)

\* Lines 645-647
RECURSIVE writeServices(_, _)
writeServices(pd, i) ==
    IF i >= Len(pd.pb.service) THEN ""
    ELSE writeServiceWithPath(pd, pd.pb.service[i + 1], i) \o writeServices(pd, i + 1)

\* Lines 649-651
RECURSIVE writeMessages(_, _)
writeMessages(pd, i) ==
    IF i >= Len(pd.pb.message_type) THEN ""
    ELSE writeMessageWithPath(pd, pd.pb.package, pd.pb.message_type[i + 1], <<>>, i, FALSE)
         \o writeMessages(pd, i + 1)

\* Lines 653-655
RECURSIVE writeEnums(_, _)
writeEnums(pd, i) ==
    IF i >= Len(pd.pb.enum_type) THEN ""
    ELSE writeEnumWithPath(pd, pd.pb.enum_type[i + 1], <<>>, i, FALSE) \o writeEnums(pd, i + 1)

\* Lines 629-634: the package clause
writePackage(pd) ==
    IF pd.pb.package # "" THEN "package " \o pd.pb.package \o ";\n\n" ELSE ""

\* pd.writeFileDescriptor()
writeFileDescriptor(pd) ==
    writeLeadingComments(pd, <<12>>)
    \o "syntax = \""
    \o SyntaxString(pd.pb)
    \o "\";\n\n"
    \o writePackage(pd)
    \o writeFileOptions(pd)
    \o writeImports(pd, 0)
    \o writeServices(pd, 0)
    \o writeMessages(pd, 0)
    \o writeEnums(pd, 0)

(***************************************************************************)
(* protodesc, FileOptions.New with AllowUnresolvable and an empty          *)
(* registry, as NewFromDescriptor calls it: the error it returns           *)
(***************************************************************************)
MinValidNumber == 1

isValidFieldNumber(n) == MinValidNumber <= n /\ n <= MaxValidNumber

\* The first error of two checks made one after the other, "" being nil
FirstError(a, b) == IF a # "" THEN a ELSE b

\* fieldRange.String() of the range [r[1], r[2]), its end printed inclusive
FieldRangeString(r) ==
    IF r[1] = r[2] - 1 THEN Itoa(r[1]) ELSE Itoa(r[1]) \o " to " \o Itoa(r[2] - 1)

\* The ranges in the order CheckValid visits them, by their start
RECURSIVE SortedRanges(_)
SortedRanges(rs) ==
    IF Len(rs) = 0 THEN <<>>
    ELSE LET k == CHOOSE k \in 1..Len(rs) : \A j \in 1..Len(rs) :
                     rs[k][1] < rs[j][1] \/ (rs[k][1] = rs[j][1] /\ k <= j)
         IN  <<rs[k]>> \o SortedRanges([i \in 1..(Len(rs) - 1) |->
                                           IF i < k THEN rs[i] ELSE rs[i + 1]])

\* FieldRanges.CheckValid from the i-th sorted range on: "" when valid
RECURSIVE CheckValid(_, _)
CheckValid(rs, i) ==
    IF i > Len(rs) THEN ""
    ELSE IF ~isValidFieldNumber(rs[i][1]) THEN "invalid field number: " \o Itoa(rs[i][1])
    ELSE IF ~isValidFieldNumber(rs[i][2] - 1)
    THEN "invalid field number: " \o Itoa(rs[i][2] - 1)
    ELSE IF ~(rs[i][1] <= rs[i][2] - 1) THEN "invalid range: " \o FieldRangeString(rs[i])
    ELSE IF i > 1 /\ ~(rs[i - 1][2] - 1 < rs[i][1])
    THEN "overlapping ranges: " \o FieldRangeString(rs[i - 1]) \o " with "
         \o FieldRangeString(rs[i])
    ELSE CheckValid(rs, i + 1)

\* fmt's %v of a []int32
RECURSIVE SpanString(_, _)
SpanString(span, i) ==
    (IF i = 1 THEN "[" ELSE "")
    \o (IF i > Len(span) THEN "]"
        ELSE (IF i = 1 THEN "" ELSE " ") \o Itoa(span[i]) \o SpanString(span, i + 1))

\* The checks of FileOptions.New before step 1: the syntax, the path, the
\* package, the public imports, the imports and the source locations
FileError(pb) ==
    IF pb.syntax \notin {"", "proto2", "proto3"}
    THEN "invalid syntax: " \o Quote(pb.syntax)
    ELSE IF pb.name = "" THEN "file path must be populated"
    ELSE IF pb.package # "" /\ ~FullNameIsValid(pb.package)
    THEN "invalid package: " \o Quote(pb.package)
    ELSE IF \E k \in 1..Len(pb.public_dependency) :
               \/ ~(0 <= pb.public_dependency[k] /\ pb.public_dependency[k] < Len(pb.dependency))
               \/ \E j \in 1..(k - 1) : pb.public_dependency[j] = pb.public_dependency[k]
    THEN "invalid or duplicate public import index: "
         \o Itoa(pb.public_dependency[
               Min({k \in 1..Len(pb.public_dependency) :
                       \/ ~(0 <= pb.public_dependency[k]
                            /\ pb.public_dependency[k] < Len(pb.dependency))
                       \/ \E j \in 1..(k - 1) :
                             pb.public_dependency[j] = pb.public_dependency[k]})])
    ELSE IF \E i \in 1..Len(pb.dependency) :
               \/ pb.dependency[i] = pb.name
               \/ \E j \in 1..(i - 1) : pb.dependency[j] = pb.dependency[i]
    THEN "already imported "
         \o Quote(pb.dependency[
               Min({i \in 1..Len(pb.dependency) :
                       \/ pb.dependency[i] = pb.name
                       \/ \E j \in 1..(i - 1) : pb.dependency[j] = pb.dependency[i]})])
    ELSE IF \E l \in 1..Len(pb.locations) : Len(pb.locations[l].span) \notin {3, 4}
    THEN "invalid span: "
         \o SpanString(pb.locations[Min({l \in 1..Len(pb.locations) :
                                            Len(pb.locations[l].span) \notin {3, 4}})].span, 1)
    ELSE ""

\* fd.HasPresence()
HasPresence(pb, f) ==
    /\ f.label # "repeated"
    /\ (SyntaxString(pb) = "proto2" \/ f.type = "message" \/ f.oneof_index # -1)

\* unmarshalDefault(fd.GetDefaultValue(), f, true) for field f of message
\* mfull: defval.Unmarshal reads the text by the kind of the field, and a
\* name that is no value of the enum makes a placeholder.  Releases of the
\* module differ in the test that follows: the older ones reject a default
\* in a proto3 file, the ones that know editions (`presence`) reject it on a
\* field without presence
unmarshalDefault(pb, ds, mfull, f, presence) ==
    IF \/ (f.type = "int32" /\ ~ParseInt32(f.default_value).ok)
       \/ (f.type = "bool" /\ f.default_value \notin {"true", "false"})
       \/ f.type = "message"
       \/ /\ f.type = "enum"
          /\ ~NameIsValid(f.default_value)
          /\ \/ findDescriptor(ds, mfull, f.type_name) = 0
             \/ \A v \in 1..Len(ds[findDescriptor(ds, mfull, f.type_name)].desc.value) :
                   ds[findDescriptor(ds, mfull, f.type_name)].desc.value[v].name
                       # f.default_value
    THEN "could not parse value for " \o f.type \o ": " \o Quote(f.default_value)
    ELSE IF ~presence /\ SyntaxString(pb) = "proto3"
    THEN "cannot be specified under proto3 semantics"
    ELSE IF presence /\ ~HasPresence(pb, f)
    THEN "cannot be specified with implicit field presence"
    ELSE IF f.label = "repeated" THEN "cannot be specified on composite types"
    ELSE ""

\* resolver.findTarget(f.Kind(), scope, type_name)
findTarget(ds, f, scope) ==
    IF f.type \in {"enum", "message"} THEN findTargetError(ds, f.type, scope, f.type_name)
    ELSE IF f.type_name # "" THEN "target name cannot be specified for " \o f.type
    ELSE ""

\* resolveMessageDependencies, for the fields of message m from the i-th on
RECURSIVE resolveFields(_, _, _, _, _, _)
resolveFields(pb, ds, mfull, m, i, presence) ==
    IF i > Len(m.field) THEN ""
    ELSE IF m.field[i].oneof_index # -1
            /\ ~(0 <= m.field[i].oneof_index /\ m.field[i].oneof_index < Len(m.oneof_decl))
    THEN "message field " \o Quote(ChildName(mfull, m.field[i].name))
         \o " has an invalid oneof index: " \o Itoa(m.field[i].oneof_index)
    ELSE IF findTarget(ds, m.field[i], mfull) # ""
    THEN "message field " \o Quote(ChildName(mfull, m.field[i].name))
         \o " cannot resolve type: " \o findTarget(ds, m.field[i], mfull)
    ELSE IF m.field[i].has_default
            /\ unmarshalDefault(pb, ds, mfull, m.field[i], presence) # ""
    THEN "message field " \o Quote(ChildName(mfull, m.field[i].name))
         \o " has invalid default: "
         \o unmarshalDefault(pb, ds, mfull, m.field[i], presence)
    ELSE resolveFields(pb, ds, mfull, m, i + 1, presence)

\* resolver.resolveMessageDependencies(ms, mds) from the i-th message on
RECURSIVE resolveMessageDependencies(_, _, _, _, _, _)
resolveMessageDependencies(pb, ds, scope, ms, i, presence) ==
    IF i > Len(ms) THEN ""
    ELSE FirstError(resolveFields(pb, ds, ChildName(scope, ms[i].name), ms[i], 1, presence),
         FirstError(resolveMessageDependencies(pb, ds, ChildName(scope, ms[i].name),
                                               ms[i].nested_type, 1, presence),
                    resolveMessageDependencies(pb, ds, scope, ms, i + 1, presence)))

\* resolveServiceDependencies, for the methods of service sfull from the
\* j-th on
RECURSIVE resolveMethods(_, _, _, _)
resolveMethods(ds, sfull, methods, j) ==
    IF j > Len(methods) THEN ""
    ELSE IF findTargetError(ds, "message", sfull, methods[j].input_type) # ""
    THEN "service method " \o Quote(ChildName(sfull, methods[j].name))
         \o " cannot resolve input: "
         \o findTargetError(ds, "message", sfull, methods[j].input_type)
    ELSE IF findTargetError(ds, "message", sfull, methods[j].output_type) # ""
    THEN "service method " \o Quote(ChildName(sfull, methods[j].name))
         \o " cannot resolve output: "
         \o findTargetError(ds, "message", sfull, methods[j].output_type)
    ELSE resolveMethods(ds, sfull, methods, j + 1)

\* resolver.resolveServiceDependencies(ss, sds) from the i-th service on
RECURSIVE resolveServiceDependencies(_, _, _, _)
resolveServiceDependencies(ds, scope, ss, i) ==
    IF i > Len(ss) THEN ""
    ELSE FirstError(resolveMethods(ds, ChildName(scope, ss[i].name), ss[i].method, 1),
                    resolveServiceDependencies(ds, scope, ss, i + 1))

\* strings.Replace(strings.ToLower(s), "_", "", -1), from the i-th
\* character on
RECURSIVE LowerNoUnderscore(_, _)
LowerNoUnderscore(s, i) ==
    IF i > Len(s) THEN ""
    ELSE (IF Char(s, i) = "_" THEN "" ELSE ToLower(Char(s, i))) \o LowerNoUnderscore(s, i + 1)

\* The loop of strs.TrimEnumPrefix(s, prefix): what is left of s behind the
\* prefix, or <<FALSE, "">> when s does not begin with it
RECURSIVE TrimLoop(_, _)
TrimLoop(s, prefix) ==
    IF Len(s) > 0 /\ Len(prefix) > 0
    THEN IF Char(s, 1) = "_" THEN TrimLoop(SubSeq(s, 2, Len(s)), prefix)
         ELSE IF ToLower(Char(s, 1)) # Char(prefix, 1) THEN <<FALSE, "">>
         ELSE TrimLoop(SubSeq(s, 2, Len(s)), SubSeq(prefix, 2, Len(prefix)))
    ELSE IF Len(prefix) > 0 THEN <<FALSE, "">>
    ELSE <<TRUE, s>>

\* strings.TrimLeft(s, "_")
RECURSIVE TrimLeftUnderscores(_)
TrimLeftUnderscores(s) ==
    IF Len(s) > 0 /\ Char(s, 1) = "_" THEN TrimLeftUnderscores(SubSeq(s, 2, Len(s))) ELSE s

\* strs.TrimEnumPrefix(s, prefix)
TrimEnumPrefix(s, prefix) ==
    IF ~TrimLoop(s, prefix)[1] THEN s
    ELSE IF Len(TrimLeftUnderscores(TrimLoop(s, prefix)[2])) = 0 THEN s
    ELSE TrimLeftUnderscores(TrimLoop(s, prefix)[2])

\* The loop of strs.EnumValueName (lowerRest) and of strs.MapEntryName from
\* the i-th character on: "_" is dropped and the letter behind it, like the
\* first, made upper case
RECURSIVE CamelCase(_, _, _, _)
CamelCase(s, i, upperNext, lowerRest) ==
    IF i > Len(s) THEN ""
    ELSE IF Char(s, i) = "_" THEN CamelCase(s, i + 1, TRUE, lowerRest)
    ELSE (IF upperNext THEN ToUpper(Char(s, i))
          ELSE IF lowerRest THEN ToLower(Char(s, i)) ELSE Char(s, i))
         \o CamelCase(s, i + 1, FALSE, lowerRest)

\* The name a value of enum e is known under in proto3
ValueKey(e, v) ==
    CamelCase(TrimEnumPrefix(e.value[v].name, LowerNoUnderscore(e.name, 1)), 1, TRUE, TRUE)

\* The values of e that clash with an earlier one: by number, and in proto3
\* (byName) by name, with the last earlier value of that name
ValueClashes(e, byName) ==
    {v \in 1..Len(e.value) :
        IF byName
        THEN /\ \E w \in 1..(v - 1) : ValueKey(e, w) = ValueKey(e, v)
             /\ e.value[Max({w \in 1..(v - 1) : ValueKey(e, w) = ValueKey(e, v)})].number
                    # e.value[v].number
        ELSE \E w \in 1..(v - 1) : e.value[w].number = e.value[v].number}

\* validateEnumDeclarations(es, eds) from the i-th enum on; the enums have
\* no reserved names or ranges and do not allow aliases
RECURSIVE validateEnumDeclarations(_, _, _, _)
validateEnumDeclarations(pb, scope, es, i) ==
    IF i > Len(es) THEN ""
    ELSE IF Len(es[i].value) = 0
    THEN "enum " \o Quote(ChildName(scope, es[i].name))
         \o " must contain at least one value declaration"
    ELSE IF ValueClashes(es[i], FALSE) # {}
    THEN "enum " \o Quote(ChildName(scope, es[i].name))
         \o " has conflicting non-aliased values on number "
         \o Itoa(es[i].value[Min(ValueClashes(es[i], FALSE))].number) \o ": "
         \o Quote(es[i].value[Min(ValueClashes(es[i], FALSE))].name) \o " with "
         \o Quote(es[i].value[Min({w \in 1..Len(es[i].value) :
                   es[i].value[w].number = es[i].value[Min(ValueClashes(es[i], FALSE))].number})].name)
    ELSE IF SyntaxString(pb) = "proto3" /\ es[i].value[1].number # 0
    THEN "enum " \o Quote(ChildName(scope, es[i].value[1].name))
         \o " using proto3 semantics must have zero number for the first value"
    ELSE IF SyntaxString(pb) = "proto3" /\ ValueClashes(es[i], TRUE) # {}
    THEN "enum " \o Quote(ChildName(scope, es[i].name))
         \o " using proto3 semantics has conflict: "
         \o Quote(es[i].value[Min(ValueClashes(es[i], TRUE))].name) \o " with "
         \o Quote(es[i].value[Max({w \in 1..(Min(ValueClashes(es[i], TRUE)) - 1) :
                   ValueKey(es[i], w) = ValueKey(es[i], Min(ValueClashes(es[i], TRUE)))})].name)
    ELSE validateEnumDeclarations(pb, scope, es, i + 1)

\* checkValidMap(f) for field f of message mfull, whose type is resolved to
\* the declaration ds[e]: "" when f is no map field or a valid one
checkValidMap(pb, ds, mfull, f, e) ==
    IF e = 0 \/ f.type # "message" THEN ""
    ELSE IF ~ds[e].desc.map_entry THEN ""
    ELSE IF mfull # Parent(ds[e].full)
    THEN "message and field must be declared in the same scope"
    ELSE IF ds[e].name # CamelCase(f.name, 1, TRUE, FALSE) \o "Entry"
    THEN "incorrect implicit map entry name"
    ELSE IF f.label # "repeated" THEN "field must be repeated"
    ELSE IF Len(ds[e].desc.field) # 2 THEN "message must have exactly two fields"
    ELSE IF Len(ds[e].desc.enum_type) + Len(ds[e].desc.nested_type) > 0
    THEN "message must not have any nested declarations"
    ELSE IF \/ ds[e].desc.field[1].name # "key" \/ ds[e].desc.field[1].number # 1
            \/ ds[e].desc.field[1].label # "optional"
            \/ ds[e].desc.field[1].oneof_index # -1 \/ ds[e].desc.field[1].has_default
    THEN "invalid key field"
    ELSE IF \/ ds[e].desc.field[2].name # "value" \/ ds[e].desc.field[2].number # 2
            \/ ds[e].desc.field[2].label # "optional"
            \/ ds[e].desc.field[2].oneof_index # -1 \/ ds[e].desc.field[2].has_default
    THEN "invalid value field"
    ELSE IF ds[e].desc.field[1].type \notin {"bool", "int32", "string"}
    THEN "invalid key kind: " \o ds[e].desc.field[1].type
    ELSE IF /\ ds[e].desc.field[2].type = "enum"
            /\ findDescriptor(ds, ds[e].full, ds[e].desc.field[2].type_name) # 0
            /\ Len(ds[findDescriptor(ds, ds[e].full, ds[e].desc.field[2].type_name)]
                       .desc.value) > 0
            /\ ds[findDescriptor(ds, ds[e].full, ds[e].desc.field[2].type_name)]
                   .desc.value[1].number # 0
    THEN "map enum value must have zero number for the first value"
    ELSE ""

\* validateMessageDeclarations, its loop over the fields of message m from
\* the i-th on
RECURSIVE validateFields(_, _, _, _, _)
validateFields(pb, ds, mfull, m, i) ==
    IF i > Len(m.field) THEN ""
    ELSE IF \E n \in 1..Len(m.reserved_name) : m.reserved_name[n] = m.field[i].name
    THEN "message field " \o Quote(ChildName(mfull, m.field[i].name))
         \o " must not use reserved name"
    ELSE IF ~isValidFieldNumber(m.field[i].number)
    THEN "message field " \o Quote(ChildName(mfull, m.field[i].name))
         \o " has an invalid number: " \o Itoa(m.field[i].number)
    ELSE IF \E r \in 1..Len(m.reserved_range) :
               m.reserved_range[r][1] <= m.field[i].number
               /\ m.field[i].number < m.reserved_range[r][2]
    THEN "message field " \o Quote(ChildName(mfull, m.field[i].name))
         \o " must not use reserved number " \o Itoa(m.field[i].number)
    ELSE IF m.field[i].proto3_optional /\ SyntaxString(pb) # "proto3"
    THEN "message field " \o Quote(ChildName(mfull, m.field[i].name))
         \o " under proto3 optional semantics must be specified in the proto3 syntax"
    ELSE IF m.field[i].proto3_optional /\ m.field[i].label # "optional"
    THEN "message field " \o Quote(ChildName(mfull, m.field[i].name))
         \o " under proto3 optional semantics must have optional cardinality"
    ELSE IF /\ m.field[i].proto3_optional
            /\ m.field[i].oneof_index # -1
            /\ Cardinality(OneofFieldIndices(m, m.field[i].oneof_index)) # 1
    THEN "message field " \o Quote(ChildName(mfull, m.field[i].name))
         \o " under proto3 optional semantics must be within a single element oneof"
    ELSE IF checkValidMap(pb, ds, mfull, m.field[i],
                          IF m.field[i].type = "message"
                          THEN findDescriptor(ds, mfull, m.field[i].type_name) ELSE 0) # ""
    THEN "message field " \o Quote(ChildName(mfull, m.field[i].name))
         \o " is an invalid map: "
         \o checkValidMap(pb, ds, mfull, m.field[i],
                          findDescriptor(ds, mfull, m.field[i].type_name))
    ELSE IF SyntaxString(pb) = "proto3" /\ m.field[i].label = "required"
    THEN "message field " \o Quote(ChildName(mfull, m.field[i].name))
         \o " using proto3 semantics cannot be required"
    ELSE validateFields(pb, ds, mfull, m, i + 1)

\* validateMessageDeclarations, its loop over the oneofs of message m from
\* the one of index j on
RECURSIVE validateOneofs(_, _, _, _, _)
validateOneofs(pb, mfull, m, j, seenSynthetic) ==
    IF j >= Len(m.oneof_decl) THEN ""
    ELSE IF OneofFieldIndices(m, j) = {}
    THEN "message oneof " \o Quote(ChildName(mfull, m.oneof_decl[j + 1]))
         \o " must contain at least one field declaration"
    ELSE IF Cardinality(OneofFieldIndices(m, j)) - 1
               # Max(OneofFieldIndices(m, j)) - Min(OneofFieldIndices(m, j))
    THEN "message oneof " \o Quote(ChildName(mfull, m.oneof_decl[j + 1]))
         \o " must have consecutively declared fields"
    ELSE IF IsSynthetic(pb, m, j) THEN validateOneofs(pb, mfull, m, j + 1, TRUE)
    ELSE IF seenSynthetic
    THEN "message oneof " \o Quote(ChildName(mfull, m.oneof_decl[j + 1]))
         \o " must be declared before synthetic oneofs"
    ELSE IF \E i \in OneofFieldIndices(m, j) : m.field[i + 1].label # "optional"
    THEN "message field "
         \o Quote(ChildName(mfull, m.field[Min({i \in OneofFieldIndices(m, j) :
                                   m.field[i + 1].label # "optional"}) + 1].name))
         \o " belongs in a oneof and must be optional"
    ELSE validateOneofs(pb, mfull, m, j + 1, seenSynthetic)

\* The fields of m that clash with an earlier one: by number, and in proto3
\* by name in lower case without underscores
FieldClashes(m, byName) ==
    {i \in 1..Len(m.field) : \E j \in 1..(i - 1) :
        IF byName
        THEN LowerNoUnderscore(m.field[j].name, 1) = LowerNoUnderscore(m.field[i].name, 1)
        ELSE m.field[j].number = m.field[i].number}

\* validateMessageDeclarations for message m, after the reserved names and
\* before the nested messages
messageError(pb, ds, mfull, m) ==
    IF CheckValid(SortedRanges(m.reserved_range), 1) # ""
    THEN "message " \o Quote(mfull) \o " reserved ranges has "
         \o CheckValid(SortedRanges(m.reserved_range), 1)
    ELSE IF FieldClashes(m, FALSE) # {}
    THEN "message " \o Quote(mfull) \o " has conflicting fields: "
         \o Quote(m.field[Min(FieldClashes(m, FALSE))].name) \o " with "
         \o Quote(m.field[Min({j \in 1..Len(m.field) :
                   m.field[j].number = m.field[Min(FieldClashes(m, FALSE))].number})].name)
    ELSE IF SyntaxString(pb) = "proto3" /\ FieldClashes(m, TRUE) # {}
    THEN "message " \o Quote(mfull) \o " using proto3 semantics has conflict: "
         \o Quote(m.field[Min(FieldClashes(m, TRUE))].name) \o " with "
         \o Quote(m.field[Min({j \in 1..Len(m.field) :
                   LowerNoUnderscore(m.field[j].name, 1)
                       = LowerNoUnderscore(m.field[Min(FieldClashes(m, TRUE))].name, 1)})].name)
    ELSE FirstError(validateFields(pb, ds, mfull, m, 1),
         FirstError(validateOneofs(pb, mfull, m, 0, FALSE),
                    validateEnumDeclarations(pb, mfull, m.enum_type, 1)))

\* Names.CheckValid ranges over a Go map, whose order is not fixed: any of
\* the reserved names that occur twice may be the one reported
DuplicateNames(names) ==
    {names[i] : i \in {i \in 1..Len(names) : \E j \in 1..(i - 1) : names[j] = names[i]}}

\* validateMessageDeclarations(ms, mds) from the i-th message on: the
\* errors it can return, {""} when it returns nil
RECURSIVE validateMessageDeclarations(_, _, _, _, _)
validateMessageDeclarations(pb, ds, scope, ms, i) ==
    IF i > Len(ms) THEN {""}
    ELSE IF DuplicateNames(ms[i].reserved_name) # {}
    THEN {"message " \o Quote(ChildName(scope, ms[i].name))
             \o " reserved names has duplicate name: " \o Quote(n) :
             n \in DuplicateNames(ms[i].reserved_name)}
    ELSE IF messageError(pb, ds, ChildName(scope, ms[i].name), ms[i]) # ""
    THEN {messageError(pb, ds, ChildName(scope, ms[i].name), ms[i])}
    ELSE IF validateMessageDeclarations(pb, ds, ChildName(scope, ms[i].name),
                                        ms[i].nested_type, 1) # {""}
    THEN validateMessageDeclarations(pb, ds, ChildName(scope, ms[i].name),
                                     ms[i].nested_type, 1)
    ELSE validateMessageDeclarations(pb, ds, scope, ms, i + 1)

\* Steps 1 and 2 of FileOptions.New and the enums of step 3: the first
\* error, "" when there is none
DeclarationError(pb, presence) ==
    FirstError(FileError(pb),
    FirstError(makeBase(Decls(pb), 1),
    FirstError(resolveMessageDependencies(pb, Decls(pb), pb.package, pb.message_type, 1,
                                          presence),
    FirstError(resolveServiceDependencies(Decls(pb), pb.package, pb.service, 1),
               validateEnumDeclarations(pb, pb.package, pb.enum_type, 1)))))

\* fileOptions.New(pb, &protoregistry.Files{}) in a release of the module
\* that does (`presence`) or does not test field presence
NewFileOf(pb, presence) ==
    IF DeclarationError(pb, presence) # "" THEN {DeclarationError(pb, presence)}
    ELSE validateMessageDeclarations(pb, Decls(pb), pb.package, pb.message_type, 1)

\* fileOptions.New(pb, &protoregistry.Files{}): the errors it can return
\* without their prefix, "" when it returns a descriptor
NewFile(pb) == NewFileOf(pb, TRUE) \cup NewFileOf(pb, FALSE)

(***************************************************************************)
(* Inputs of Scan                                                          *)
(***************************************************************************)
\* Number of catalogue parts an adversarial buffer is made of
MaxParts == 3
\* Padding lengths of the short and the long descriptor bodies
ShortPad == 6
LongPad == 120

Fill(byte, k) == [i \in 1..k |-> byte]

\* Field 1 (name) of a FileDescriptorProto for file "<c>.proto"
NameRecord(c) == <<10, 7, c>> \o scan
\* Field 2 (package), a string of k bytes 'x'
PadField(k) == <<18, k>> \o Fill(120, k)
\* Field 3 (dependency) "x.proto"
DepField == <<26, 7, 120>> \o scan
\* Field 12 (syntax) "proto3"
SyntaxField == <<98, 6, 112, 114, 111, 116, 111, 51>>

\* A serialized descriptor for "<c>.proto": name, package padding of k
\* bytes, and a dependency when dep
Descriptor(c, k, dep) ==
    NameRecord(c) \o PadField(k) \o (IF dep THEN DepField ELSE <<>>)

\* protowire.AppendVarint
RECURSIVE AppendVarint(_)
AppendVarint(v) ==
    IF v < 128 THEN <<v>> ELSE <<128 + (v % 128)>> \o AppendVarint(v \div 128)

\* A message behind the varint of its own byte length
Framed(m) == AppendVarint(Len(m)) \o m

\* Padding that brings a descriptor without dependency to exactly
\* len(filename) + MinMargin bytes
EdgePad == (7 + MinMargin) - (Len(NameRecord(97)) + 2)

PadLens == {ShortPad, EdgePad - 1, EdgePad, EdgePad + 1, LongPad}

DescriptorsOf(c) == {Descriptor(c, k, dep) : k \in PadLens, dep \in BOOLEAN}

\* Two length-prefixed descriptors, a.proto then b.proto, back to back
TwoFramed(ma, mb) == Framed(ma) \o Framed(mb)
TwoFramedInputs == {TwoFramed(ma, mb) : ma \in DescriptorsOf(97), mb \in DescriptorsOf(98)}

\* The catalogue adversarial buffers are concatenated from
Parts ==
    { <<0>>,                              \* a tag with field number 0
      <<10>>,                             \* a lone field-1 tag
      NameRecord(97) \o <<23>>,           \* 0A 07 "a.proto", then field 2 with reserved wire type 7
      <<57>>,                             \* '9': a varint 57, or the tag of a fixed64 field 7
      <<185, 128, 128, 0>>,               \* 57 as a four-byte varint
      <<10>> \o Fill(255, 9) \o <<127>>,  \* 0A and a ten-byte varint that overflows
      scan,                               \* a bare marker
      NameRecord(97),                     \* 0A 07 "a.proto"
      <<10, 8, 97>> \o scan,              \* 0A 08 "a.proto": declared length one too long
      <<10, 8, 1, 98>> \o scan,           \* 0A 08 01 "b.proto": unprintable filename byte
      <<10, 10, 97, 98, 99, 100>> \o scan,\* 0A 0A "abcd.proto"
      <<10, 7, 97, 47>> \o Drop(scan, 1), \* 0A 07 "a/proto": no marker
      <<18, 9>> \o NameRecord(98),        \* field 2 holding the bytes 0A 07 "b.proto"
      SyntaxField,
      PadField(EdgePad + 2) }

RECURSIVE Concat(_)
Concat(ps) == IF ps = <<>> THEN <<>> ELSE Head(ps) \o Concat(Tail(ps))

PartBuffers(n) == {Concat(ps) : ps \in UNION {[1..k -> Parts] : k \in 0..n}}

ScanInputs == TwoFramedInputs \cup PartBuffers(MaxParts)

(***************************************************************************)
(* Scan                                                                    *)
(***************************************************************************)
\* No descriptor, while Scan runs
RenderIdle ==
    /\ payload = <<>>
    /\ descriptorpb = Nil
    /\ definition = Nil
    /\ err = ""
    /\ text = ""
    /\ filename = ""
    /\ rpc = "idle"

ScanInit ==
    /\ buffer \in ScanInputs
    /\ data = buffer
    /\ totalOffset = 0
    /\ results = <<>>
    /\ pc = "find"
    /\ index = -1
    /\ searchStart = 0
    /\ start = -1
    /\ prefixLen = 0
    /\ prefixBytes = 0
    /\ log = <<>>
    /\ RenderIdle

\* Lines 169-173 and 186: look for the marker; leave the loop when there
\* is none, else enter findValidStartWithLength(data, index).
FindMarker ==
    /\ pc = "find"
    /\ LET i == BytesIndex(data, scan)
       IN  /\ index' = i
           /\ IF i = -1
              THEN /\ pc' = "done"
                   /\ UNCHANGED searchStart
              ELSE /\ pc' = "search"
                   /\ searchStart' = i
    /\ UNCHANGED <<buffer, data, totalOffset, results, start, prefixLen, prefixBytes, log>>
    /\ UNCHANGED renderVars

\* One turn of the backward search loop of findValidStartWithLength
SearchStep ==
    /\ pc = "search"
    /\ LET t == SearchTurn(data, index, searchStart)
       IN  /\ searchStart' = t.searchStart
           /\ start' = t.start
           /\ prefixLen' = t.prefixLen
           /\ prefixBytes' = t.prefixBytes
           /\ pc' = IF t.done THEN "decide" ELSE "search"
    /\ UNCHANGED <<buffer, data, totalOffset, results, index, log>>
    /\ UNCHANGED renderVars

\* A skip that resumes at the marker itself
SkipMarker_Stay ==
    /\ pc = "decide"
    /\ start = -1
    /\ data' = Drop(data, index)
    /\ totalOffset' = totalOffset + index
    /\ log' = Append(log, [kind |-> "skip", base |-> totalOffset, marker |-> totalOffset + index,
                           start |-> -1, length |-> 0])
    /\ pc' = "find"
    /\ UNCHANGED <<buffer, results, index, searchStart, start, prefixLen, prefixBytes>>
    /\ UNCHANGED renderVars

\* Lines 187-192: no valid start
SkipMarker ==
    /\ pc = "decide"
    /\ start = -1
    /\ data' = Drop(data, index + 1)
    /\ totalOffset' = totalOffset + index + 1
    /\ log' = Append(log, [kind |-> "skip", base |-> totalOffset, marker |-> totalOffset + index,
                           start |-> -1, length |-> 0])
    /\ pc' = "find"
    /\ UNCHANGED <<buffer, results, index, searchStart, start, prefixLen, prefixBytes>>
    /\ UNCHANGED renderVars

\* A record step that goes on right behind the start of the range
Record_KeepRange(kind, length) ==
    /\ results' = Append(results, [start |-> totalOffset + start, length |-> length])
    /\ data' = Drop(data, start + 1)
    /\ totalOffset' = totalOffset + start + 1
    /\ log' = Append(log, [kind |-> kind, base |-> totalOffset, marker |-> totalOffset + index,
                           start |-> totalOffset + start, length |-> length])
    /\ pc' = "find"
    /\ UNCHANGED <<buffer, index, searchStart, start, prefixLen, prefixBytes>>
    /\ UNCHANGED renderVars

\* Lines 231-234: record data[start:start+length] and move past it
Record(kind, length) ==
    /\ results' = Append(results, [start |-> totalOffset + start, length |-> length])
    /\ data' = Drop(data, start + length)
    /\ totalOffset' = totalOffset + start + length
    /\ log' = Append(log, [kind |-> kind, base |-> totalOffset, marker |-> totalOffset + index,
                           start |-> totalOffset + start, length |-> length])
    /\ pc' = "find"
    /\ UNCHANGED <<buffer, index, searchStart, start, prefixLen, prefixBytes>>
    /\ UNCHANGED renderVars

\* Lines 211-213: the outer length prefix gives the length
RecordPrefixed ==
    /\ pc = "decide"
    /\ start # -1
    /\ prefixLen > 0 /\ start + prefixLen <= Len(data)
    /\ Record("prefix", prefixLen)

\* Lines 214-217: consumeBytes gives the length
RecordConsumed ==
    /\ pc = "decide"
    /\ start # -1
    /\ ~(prefixLen > 0 /\ start + prefixLen <= Len(data))
    /\ \E detrand \in BOOLEAN :
         LET c == consumeBytes(data, start, detrand)
         IN  /\ c.err = ""
             /\ Record("consumed", c.n)

\* A Scan that gives up at the first consumption error
AbandonMarker_Stop ==
    /\ pc = "decide"
    /\ start # -1
    /\ ~(prefixLen > 0 /\ start + prefixLen <= Len(data))
    /\ \E detrand \in BOOLEAN :
         /\ consumeBytes(data, start, detrand).err # ""
         /\ log' = Append(log, [kind |-> "error", base |-> totalOffset,
                                marker |-> totalOffset + index,
                                start |-> totalOffset + start,
                                length |-> consumeBytes(data, start, detrand).n])
    /\ pc' = "done"
    /\ UNCHANGED <<buffer, data, totalOffset, results, index, searchStart, start,
                   prefixLen, prefixBytes>>
    /\ UNCHANGED renderVars

\* Lines 219-228: consumeBytes failed; the error is printed, with the prefix
\* of the running build, and the marker abandoned
AbandonMarker ==
    /\ pc = "decide"
    /\ start # -1
    /\ ~(prefixLen > 0 /\ start + prefixLen <= Len(data))
    /\ \E detrand \in BOOLEAN :
         LET c == consumeBytes(data, start, detrand)
         IN  /\ c.err # ""
             /\ IF Len(data) > index
                THEN /\ data' = Drop(data, index + 1)
                     /\ totalOffset' = totalOffset + index + 1
                     /\ pc' = "find"
                ELSE /\ pc' = "done"
                     /\ UNCHANGED <<data, totalOffset>>
             /\ log' = Append(log, [kind |-> "error", base |-> totalOffset,
                                    marker |-> totalOffset + index,
                                    start |-> totalOffset + start, length |-> c.n])
    /\ UNCHANGED <<buffer, results, index, searchStart, start, prefixLen, prefixBytes>>
    /\ UNCHANGED renderVars

ScanNext ==
    \/ FindMarker
    \/ SearchStep
    \/ SkipMarker
    \/ RecordPrefixed
    \/ RecordConsumed
    \/ AbandonMarker

Spec == ScanInit /\ [][ScanNext]_vars

(***************************************************************************)
(* Inputs of NewFromDescriptor: FileDescriptorProtos as protoc writes them *)
(***************************************************************************)
\* The longest leading comment of the inputs, in lines
MaxCommentLines == 2

\* A FieldDescriptorProto; oneof_index -1 stands for none
Field(name, number, label, type, type_name, oneof_index, proto3_optional) ==
    [name |-> name, number |-> number, label |-> label, type |-> type,
     type_name |-> type_name, oneof_index |-> oneof_index,
     proto3_optional |-> proto3_optional, has_default |-> FALSE, default_value |-> ""]

WithDefault(field, value) ==
    [field EXCEPT !.has_default = TRUE, !.default_value = value]

\* A DescriptorProto
Message(name, field, nested_type, enum_type, oneof_decl, reserved_range, map_entry) ==
    [name |-> name, field |-> field, nested_type |-> nested_type, enum_type |-> enum_type,
     oneof_decl |-> oneof_decl, reserved_range |-> reserved_range,
     reserved_name |-> IF reserved_range = <<>> THEN <<>> ELSE <<"old">>,
     map_entry |-> map_entry]

FieldA == Field("a", 1, "optional", "int32", "", -1, FALSE)
FieldR == Field("r", 2, "repeated", "string", "", -1, FALSE)
FieldI == Field("i", 3, "optional", "message", ".pkg.M.Inner", -1, FALSE)
FieldM == Field("m", 4, "repeated", "message", ".pkg.M.MEntry", -1, FALSE)
FieldO(k) == Field("o", 5, "optional", "int32", "", k, TRUE)
FieldX(k) == Field("x", 6, "optional", "string", "", k, FALSE)
FieldY(k) == Field("y", 7, "optional", "enum", ".pkg.M.Kind", k, FALSE)

\* message Inner { int32 v = 1; optional string p = 2; }
Inner ==
    Message("Inner",
            <<Field("v", 1, "optional", "int32", "", -1, FALSE),
              Field("p", 2, "optional", "string", "", 0, TRUE)>>,
            <<>>, <<>>, <<"_p">>, <<>>, FALSE)

\* The entry message protoc generates for `map<string, value> m = 4;`
MEntry(value) ==
    Message("MEntry",
            <<Field("key", 1, "optional", "string", "", -1, FALSE), value>>,
            <<>>, <<>>, <<>>, <<>>, TRUE)

IntValue == Field("value", 2, "optional", "int32", "", -1, FALSE)
InnerValue == Field("value", 2, "optional", "message", ".pkg.M.Inner", -1, FALSE)

Kind == [name |-> "Kind",
         value |-> <<[name |-> "K0", number |-> 0], [name |-> "K1", number |-> 1]>>]

\* The shapes of message M, with the reserved ranges rs
Shape(k, rs) ==
    CASE k = 1 -> Message("M", <<FieldA>>, <<>>, <<>>, <<>>, rs, FALSE)
      [] k = 2 -> Message("M", <<FieldA, FieldR, FieldI>>, <<Inner>>, <<>>, <<>>, rs, FALSE)
      [] k = 3 -> Message("M", <<FieldA, FieldM>>, <<MEntry(IntValue)>>, <<>>, <<>>, rs, FALSE)
      [] k = 4 -> Message("M", <<FieldA, FieldO(0)>>, <<>>, <<>>, <<"_o">>, rs, FALSE)
      [] k = 5 -> Message("M", <<FieldO(0), FieldA>>, <<>>, <<>>, <<"_o">>, rs, FALSE)
      [] k = 6 -> Message("M", <<FieldX(0), FieldY(0), FieldA, FieldO(1)>>, <<>>, <<Kind>>,
                          <<"choice", "_o">>, rs, FALSE)
      [] k = 7 -> Message("M", <<FieldA, FieldR, FieldI, FieldM, FieldX(0), FieldY(0), FieldO(1)>>,
                          <<Inner, MEntry(InnerValue)>>, <<Kind>>, <<"choice", "_o">>, rs, FALSE)

Shapes == 1..7

\* The paths of SourceCodeInfo a comment is attached to, by shape
Targets(k) ==
    CASE k = 1 -> {<<4, 0, 2, 0>>, <<4, 0>>}
      [] k = 2 -> {<<4, 0, 2, 0>>, <<4, 0, 3, 0, 2, 0>>, <<4, 0, 3, 0, 2, 1>>, <<4, 0, 3, 0, 8, 0>>}
      [] k = 3 -> {<<4, 0, 2, 1>>}
      [] k = 4 -> {<<4, 0, 2, 1>>, <<4, 0, 8, 0>>}
      [] k = 5 -> {<<4, 0, 2, 0>>, <<4, 0, 8, 0>>}
      [] k = 6 -> {<<4, 0, 2, 0>>, <<4, 0, 2, 3>>, <<4, 0, 8, 0>>, <<4, 0, 8, 1>>,
                   <<4, 0, 4, 0>>, <<4, 0, 4, 0, 2, 1>>}
      [] k = 7 -> {<<4, 0, 2, 6>>, <<4, 0, 8, 1>>, <<4, 0, 3, 0, 2, 0>>}

\* The text of one comment line
LineTexts == {" one", "two", ""}

\* A comment of the lines ls, as protoc records it: each line ends with \n
RECURSIVE CommentOf(_)
CommentOf(ls) ==
    IF Len(ls) = 0 THEN ""
    ELSE CommentOf(SubSeq(ls, 1, Len(ls) - 1)) \o ls[Len(ls)] \o "\n"

LineSeqs == UNION {[1..n -> LineTexts] : n \in 0..MaxCommentLines}

LeadingTexts == {CommentOf(ls) : ls \in LineSeqs}

TrailingTexts == {"", " t\n", " t1\n t2\n", "  \n", "t"}

DetachedTexts == {<<>>, <<" d\n">>}

Location(path, leading, trailing, detached) ==
    [path |-> path, span |-> <<1, 0, 10>>, leading_comments |-> leading,
     trailing_comments |-> trailing, leading_detached_comments |-> detached]

CommentVariants(path) ==
    {Location(path, l, t, d) : l \in LeadingTexts, t \in TrailingTexts, d \in DetachedTexts}

\* The FileOptions: every field of the table, kind "nil" when it is not set
NoOptions ==
    [nil |-> TRUE,
     set |-> [n \in {optionDefinitions[i].FieldName : i \in 1..Len(optionDefinitions)} |->
                 [kind |-> "nil", s |-> "", b |-> FALSE]]]

SomeOptions ==
    [nil |-> FALSE,
     set |-> [n \in {optionDefinitions[i].FieldName : i \in 1..Len(optionDefinitions)} |->
                 CASE n = "GoPackage" -> [kind |-> "string", s |-> "x.io/y;z", b |-> FALSE]
                   [] n = "JavaMultipleFiles" -> [kind |-> "bool", s |-> "", b |-> TRUE]
                   [] n = "PhpNamespace" -> [kind |-> "string", s |-> "A\\B", b |-> FALSE]
                   [] OTHER -> [kind |-> "nil", s |-> "", b |-> FALSE]]]

\* A file with nothing but messages and comments
PlainFile(syntax, messages, locations) ==
    [name |-> "a.proto", package |-> "pkg", syntax |-> syntax, dependency |-> <<>>,
     public_dependency |-> <<>>, options |-> NoOptions, message_type |-> messages,
     enum_type |-> <<>>, service |-> <<>>, locations |-> locations]

Service ==
    [name |-> "S",
     method |-> <<[name |-> "Get", input_type |-> ".pkg.M", output_type |-> ".pkg.M",
                   client_streaming |-> FALSE, server_streaming |-> FALSE],
                  [name |-> "Watch", input_type |-> ".pkg.M", output_type |-> ".dep.Event",
                   client_streaming |-> TRUE, server_streaming |-> TRUE]>>]

\* A file with options, imports, a service and an enum besides message M
RichFile(syntax, package, messages, locations) ==
    [name |-> "dir/a.proto", package |-> package, syntax |-> syntax,
     dependency |-> <<"dep.proto", "pub.proto">>, public_dependency |-> <<1>>,
     options |-> SomeOptions, message_type |-> messages, enum_type |-> <<Kind>>,
     service |-> <<Service>>, locations |-> locations]

\* message P of a proto2 file
Proto2Message ==
    Message("P",
            <<Field("q", 1, "required", "int32", "", -1, FALSE),
              WithDefault(Field("z", 2, "optional", "int32", "", -1, FALSE), "5"),
              WithDefault(Field("s", 3, "optional", "string", "", -1, FALSE), "hi"),
              Field("c", 4, "optional", "bool", "", 0, FALSE)>>,
            <<>>, <<>>, <<"only">>, <<>>, FALSE)

\* The starts and the exclusive ends of the reserved ranges
RangeStarts == {5, 9, MaxValidNumber - 1, MaxValidNumber}
RangeEnds == {6, 10, MaxValidNumber, MaxValidNumber + 1}

RangeLists ==
    {<<<<lo, hi>>>> : lo \in RangeStarts, hi \in RangeEnds}
    \cup {<<<<5, 6>>, <<lo, hi>>>> : lo \in {9, MaxValidNumber}, hi \in {10, MaxValidNumber + 1}}
    \cup {<<<<9, MaxValidNumber + 1>>, <<5, 10>>>>, <<<<MaxValidNumber, MaxValidNumber + 1>>, <<5, 9>>>>}

RangeInputs ==
    {PlainFile("proto3", <<Shape(k, rs)>>, <<>>) : k \in {1, 2}, rs \in RangeLists}

CommentInputs ==
    UNION {{PlainFile("proto3", <<Shape(k, <<>>)>>, <<c>>) :
               c \in UNION {CommentVariants(t) : t \in Targets(k)}} : k \in Shapes}

\* A synthetic oneof with comments both at its own path and at its field
OneofInputs ==
    {PlainFile("proto3", <<Shape(4, <<>>)>>,
               <<Location(<<4, 0, 8, 0>>, CommentOf(<<" wrapper">>), t, d),
                 Location(<<4, 0, 2, 1>>, l, " of o\n", <<>>)>>) :
        l \in LeadingTexts, t \in {"", " hidden\n"}, d \in DetachedTexts}

FileInputs ==
    {PlainFile("proto3", <<Shape(k, <<>>)>>, <<>>) : k \in Shapes}
    \cup {RichFile(syntax, package, <<Shape(1, <<>>)>>,
                   <<Location(<<12>>, CommentOf(<<" file">>), "", <<>>)>>) :
             syntax \in {"proto3", "proto4"}, package \in {"pkg", ""}}
    \cup {RichFile("proto3", "pkg", <<Shape(k, <<>>)>>, <<>>) : k \in {3, 7}}
    \cup {RichFile("", "pkg", <<Proto2Message>>,
                   <<Location(<<6, 0>>, CommentOf(<<" svc">>), "", <<>>),
                     Location(<<6, 0, 2, 1>>, CommentOf(<<" rpc">>), " t\n", <<>>),
                     Location(<<6, 0, 2, 1>>, CommentOf(<<" watch">>), " w\n", <<>>)>>)}

\* Message M with the fields `field` and the oneofs `oneof_decl`
Plain(field, oneof_decl) == Message("M", field, <<>>, <<>>, oneof_decl, <<>>, FALSE)

\* Descriptors protodesc rejects: the members of a oneof apart, a field on a
\* reserved number, defaults and a required field under proto3, a oneof
\* without members, a name declared twice, a package that is no name, two
\* reserved names given twice, a type name that is a field, a default that
\* is no number
RejectedInputs ==
    {PlainFile("proto3", <<m>>, <<>>) :
        m \in {Message("M", <<FieldX(0), FieldA, FieldY(0), FieldO(1)>>, <<>>, <<Kind>>,
                       <<"choice", "_o">>, <<>>, FALSE),
               Shape(1, <<<<1, 2>>>>),
               Proto2Message,
               Plain(<<Field("q", 1, "required", "int32", "", -1, FALSE)>>, <<>>),
               Plain(<<FieldA>>, <<"empty">>),
               [Plain(<<FieldA>>, <<>>) EXCEPT !.reserved_name = <<"u", "v", "v", "u">>],
               Plain(<<FieldA, Field("f", 2, "optional", "message", "a", -1, FALSE)>>, <<>>)}}
    \cup {PlainFile("proto3", <<Shape(1, <<>>), Shape(1, <<>>)>>, <<>>),
          [PlainFile("proto3", <<Shape(1, <<>>)>>, <<>>) EXCEPT !.package = "1pkg"],
          PlainFile("proto2", <<Plain(<<WithDefault(FieldA, "0x10")>>, <<>>)>>, <<>>)}

\* Descriptors with defaults: numbers as strconv reads them, and a default
\* on a member of a oneof under proto3, which the releases of the module
\* that test field presence accept and the older ones reject
DefaultInputs ==
    {PlainFile("proto2", <<Plain(<<WithDefault(FieldA, d)>>, <<>>)>>, <<>>) :
        d \in {"+007", "-0", "-2147483648", "12"}}
    \cup {PlainFile("proto3", <<Plain(<<WithDefault(FieldX(0), "hi")>>, <<"choice">>)>>, <<>>)}

\* The longest import path of a go_package option, in path elements
MaxElems == 3

\* Slash-separated paths of 0..n elements
PathElems == {"x", "y", "..", ".", ""}
PathsOf(elems, n) == {StrJoin(es, "/") : es \in UNION {[1..k -> elems] : k \in 0..n}}

\* go_package values: with a package name behind `;`, with two `;`, and
\* without one
GoPackages ==
    {g \o ";p" : g \in PathsOf(PathElems, MaxElems)}
    \cup {g \o ";p;q" : g \in PathsOf(PathElems, 1)}
    \cup PathsOf(PathElems, 2)

\* Declared paths of a file, the empty one included
DeclaredPaths == PathsOf({"d", "a.proto", ""}, 2)

WithGoPackage(g) ==
    [nil |-> FALSE,
     set |-> [n \in {optionDefinitions[i].FieldName : i \in 1..Len(optionDefinitions)} |->
                 IF n = "GoPackage" THEN [kind |-> "string", s |-> g, b |-> FALSE]
                 ELSE [kind |-> "nil", s |-> "", b |-> FALSE]]]

\* A file of one message under a declared path, with and without go_package
NamedFile(name, options) ==
    [PlainFile("proto3", <<Shape(1, <<>>)>>, <<>>) EXCEPT !.name = name, !.options = options]

FilenameInputs ==
    {NamedFile(name, WithGoPackage(g)) : name \in DeclaredPaths, g \in GoPackages}
    \cup {NamedFile(name, options) : name \in DeclaredPaths,
                                    options \in {NoOptions, SomeOptions}}

RenderInputs ==
    RangeInputs \cup CommentInputs \cup OneofInputs \cup FileInputs \cup FilenameInputs
    \cup RejectedInputs \cup DefaultInputs

(***************************************************************************)
(* NewFromDescriptor and String                                            *)
(***************************************************************************)
\* No buffer, while the Renderer runs
ScanIdle ==
    /\ buffer = <<>>
    /\ data = <<>>
    /\ totalOffset = 0
    /\ results = <<>>
    /\ pc = "idle"
    /\ index = -1
    /\ searchStart = 0
    /\ start = -1
    /\ prefixLen = 0
    /\ prefixBytes = 0
    /\ log = <<>>

(***************************************************************************)
(* proto.Unmarshal into a FileDescriptorProto, as NewFromBytes calls it.   *)
(* The payloads hold the fields name (1), package (2), dependency (3),     *)
(* message_type (4) of messages with a name (1), and syntax (12), fields   *)
(* with numbers the two messages do not declare, and malformed data; their *)
(* strings are printable ASCII without the grave accent.                   *)
(***************************************************************************)
\* The characters of the bytes 32..95 and 97..126, in order
AsciiChars ==
    " !\"#$%&'()*+,-./0123456789:;<=>?@ABCDEFGHIJKLMNOPQRSTUVWXYZ[\\]^_abcdefghijklmnopqrstuvwxyz{|}~"

\* The character of the byte c
Chr(c) == IF c < 96 THEN Char(AsciiChars, c - 31) ELSE Char(AsciiChars, c - 32)

\* The byte of the character at the offset i of AsciiChars
Ord(i) == IF i < 64 THEN i + 32 ELSE i + 33

\* string(v) of the bytes v
RECURSIVE BytesToString(_, _)
BytesToString(v, i) ==
    IF i > Len(v) THEN ""
    ELSE Chr(v[i]) \o BytesToString(v, i + 1)

\* []byte(s)
RECURSIVE StringToBytes(_, _)
StringToBytes(s, i) ==
    IF i > Len(s) THEN <<>>
    ELSE <<Ord(StrIndex(AsciiChars, Char(s, i)))>> \o StringToBytes(s, i + 1)

\* The tag at the head of a field, as unmarshalPointer reads it: the varint,
\* then a field number outside MinValidNumber..MaxValidNumber is an error
UnmarshalTag(v) ==
    IF v.n < 0 \/ v.hi \/ v.p4 >= 16 \/ (v.lo \div 8) + 33554432 * v.p4 < MinValidNumber
    THEN [num |-> 0, typ |-> 0, n |-> -1]
    ELSE [num |-> (v.lo \div 8) + 33554432 * v.p4, typ |-> v.lo % 8, n |-> v.n]

\* What unmarshalPointer returns errDecode at
errDecodeRecord == [num |-> 0, typ |-> 0, value |-> <<>>]

\* The loop of unmarshalPointer over the bytes of one message: the fields in
\* order, each with the bytes of its value, closed by errDecodeRecord where
\* the loop returns errDecode. A field the message declares and a field it
\* skips take the same bytes; an end group outside a group is an error.
RECURSIVE WireRecords(_)
WireRecords(b) ==
    IF Len(b) = 0 THEN <<>>
    ELSE LET t == UnmarshalTag(ConsumeVarint(b))
         IN  IF t.n < 0 \/ t.typ = 4 THEN <<errDecodeRecord>>
             ELSE LET n == consumeFieldValueD(t.num, t.typ, Drop(b, t.n), DefaultRecursionLimit)
                  IN  IF n < 0 THEN <<errDecodeRecord>>
                      ELSE <<[num |-> t.num, typ |-> t.typ, value |-> Slice(b, t.n, t.n + n)]>>
                           \o WireRecords(Drop(b, t.n + n))

\* The loop returned errDecode
HasDecodeError(rs) == \E i \in 1..Len(rs) : rs[i].num = 0

\* The contents of the length-delimited fields numbered num, in order; with
\* another wire type the field is kept as unknown
RECURSIVE FieldBytes(_, _, _)
FieldBytes(rs, num, i) ==
    IF i > Len(rs) THEN <<>>
    ELSE (IF rs[i].num = num /\ rs[i].typ = 2
          THEN <<Drop(rs[i].value, ConsumeVarint(rs[i].value).n)>>
          ELSE <<>>)
         \o FieldBytes(rs, num, i + 1)

\* An optional string field: the last value wins, "" when there is none
LastString(rs, num) ==
    LET vs == FieldBytes(rs, num, 1)
    IN  IF Len(vs) = 0 THEN "" ELSE BytesToString(vs[Len(vs)], 1)

\* A repeated string field
RECURSIVE Strings(_, _)
Strings(vs, i) ==
    IF i > Len(vs) THEN <<>> ELSE <<BytesToString(vs[i], 1)>> \o Strings(vs, i + 1)

\* A DescriptorProto of the bytes b
UnmarshalMessage(b) ==
    Message(LastString(WireRecords(b), 1), <<>>, <<>>, <<>>, <<>>, <<>>, FALSE)

\* The repeated field message_type
RECURSIVE UnmarshalMessages(_, _)
UnmarshalMessages(vs, i) ==
    IF i > Len(vs) THEN <<>> ELSE <<UnmarshalMessage(vs[i])>> \o UnmarshalMessages(vs, i + 1)

\* The FileDescriptorProto after proto.Reset
ZeroFile ==
    [name |-> "", package |-> "", syntax |-> "", dependency |-> <<>>,
     public_dependency |-> <<>>, options |-> NoOptions, message_type |-> <<>>,
     enum_type |-> <<>>, service |-> <<>>, locations |-> <<>>]

\* proto.Unmarshal(payload, &pb): whether it returned nil, and pb
Unmarshal(b) ==
    LET rs == WireRecords(b)
        ms == FieldBytes(rs, 4, 1)
    IN  IF HasDecodeError(rs) \/ \E k \in 1..Len(ms) : HasDecodeError(WireRecords(ms[k]))
        THEN [ok |-> FALSE, pb |-> ZeroFile]
        ELSE [ok |-> TRUE,
              pb |-> [ZeroFile EXCEPT !.name = LastString(rs, 1),
                                      !.package = LastString(rs, 2),
                                      !.dependency = Strings(FieldBytes(rs, 3, 1), 1),
                                      !.message_type = UnmarshalMessages(ms, 1),
                                      !.syntax = LastString(rs, 12)]]

\* A length-delimited field of the string s
StringField(num, s) == <<8 * num + 2, Len(s)>> \o StringToBytes(s, 1)

\* A length-delimited field of the bytes v
BytesField(num, v) == <<8 * num + 2, Len(v)>> \o v

\* A serialized descriptor: a message, then the name, package and syntax
BasePayload ==
    BytesField(4, StringField(1, "M")) \o StringField(1, "a.proto")
    \o StringField(2, "pkg") \o StringField(12, "proto3")

\* Fields to add to it: one the file does not declare, as a varint and as a
\* group; the name as a varint; a second name; an import; a second message,
\* of another and of the same name; a message with an undeclared field; and
\* malformed data: field number 0, a number above MaxValidNumber, an end
\* group, a reserved wire type, an overlong varint, a message cut short
Probes ==
    { <<160, 6, 1>>, <<163, 6, 164, 6>>, <<8, 1>>,
      StringField(1, "dir/b.proto"), StringField(3, "d.proto"),
      BytesField(4, StringField(1, "N")), BytesField(4, StringField(1, "M")),
      BytesField(4, <<160, 6, 1>> \o StringField(1, "N")),
      <<2, 0>>, <<128, 128, 128, 128, 16, 0>>, <<12>>, <<166, 6>>,
      <<128, 128, 128, 128, 128, 128, 128, 128, 128, 2>>, <<34, 2, 10, 5>> }

\* Where a field is added: behind the message, and at the end
ProbeOffsets == {5, Len(BasePayload)}

\* The payloads NewFromBytes is given: the descriptor, whole and cut at
\* every offset, and with one more field
PayloadInputs ==
    { Take(BasePayload, k) : k \in 0..Len(BasePayload) }
    \cup { Take(BasePayload, k) \o p \o Drop(BasePayload, k) : k \in ProbeOffsets, p \in Probes }

\* A caller with a descriptor, or one with the bytes of a descriptor
RenderInit ==
    /\ \/ /\ descriptorpb \in RenderInputs
          /\ payload = <<>>
          /\ rpc = "new"
       \/ /\ descriptorpb = ZeroFile
          /\ payload \in PayloadInputs
          /\ rpc = "bytes"
    /\ definition = Nil
    /\ err = ""
    /\ text = ""
    /\ filename = ""
    /\ ScanIdle

\* The ProtoDefinition of lines 677-683, its comment map built; of the
\* descriptor NewFile made it holds the declarations
NewDefinition(pb) ==
    [nil |-> FALSE, pb |-> pb, descriptor |-> Decls(pb), builder |-> "", indendation |-> 0,
     comments |-> buildCommentMap(pb)]

\* The body of NewFromDescriptor(pb): what it returns. The text of an error
\* begins with the prefix of the running build
Returned(pb) ==
    \E e \in NewFile(pb), detrand \in BOOLEAN :
        IF e # ""
        THEN /\ definition' = Nil
             /\ err' = "Couldn't create FileDescriptor: " \o ErrorPrefix(detrand) \o e
             /\ rpc' = "failed"
        ELSE /\ definition' = [NewDefinition(pb) EXCEPT
                                 !.builder = writeFileDescriptor(NewDefinition(pb))]
             /\ err' = ""
             /\ rpc' = "made"

\* NewFromDescriptor(pb)
NewFromDescriptor ==
    /\ rpc = "new"
    /\ Returned(descriptorpb)
    /\ UNCHANGED <<payload, descriptorpb, text, filename>>
    /\ UNCHANGED scanVars

\* NewFromBytes(payload): proto.Unmarshal, then NewFromDescriptor(&pb)
NewFromBytes ==
    /\ rpc = "bytes"
    /\ IF Unmarshal(payload).ok
       THEN /\ descriptorpb' = Unmarshal(payload).pb
            /\ Returned(Unmarshal(payload).pb)
       ELSE /\ \E detrand \in BOOLEAN :
                 err' = "Couldn't unmarshal proto: " \o ErrorPrefix(detrand)
                        \o "cannot parse invalid wire-format data"
            /\ definition' = Nil
            /\ rpc' = "failed"
            /\ UNCHANGED descriptorpb
    /\ UNCHANGED <<payload, text, filename>>
    /\ UNCHANGED scanVars

\* pd.String()
String ==
    /\ rpc = "made"
    /\ text' = definition.builder
    /\ rpc' = "read"
    /\ UNCHANGED <<payload, descriptorpb, definition, err, filename>>
    /\ UNCHANGED scanVars

\* pd.pb.GetOptions().GetGoPackage(): "" for nil options and for an unset
\* field
GetGoPackage(pb) ==
    IF pb.options.nil \/ pb.options.set["GoPackage"].kind = "nil" THEN ""
    ELSE pb.options.set["GoPackage"].s

\* The value pd.Filename() returns; pd.descriptor.Path() is the name of pb
FilenameOf(pd, goPackage, semicolon) ==
    IF semicolon = -1 THEN pd.pb.name
    ELSE Join(<<SubSeq(goPackage, 1, semicolon), Base(pd.pb.name)>>)

\* pd.Filename(), before or after pd.String()
Filename ==
    /\ rpc \in {"made", "read"}
    /\ filename' = FilenameOf(definition, GetGoPackage(definition.pb),
                              StrIndex(GetGoPackage(definition.pb), ";"))
    /\ rpc' = "named"
    /\ UNCHANGED <<payload, descriptorpb, definition, err, text>>
    /\ UNCHANGED scanVars

RenderNext ==
    \/ NewFromBytes
    \/ NewFromDescriptor
    \/ String
    \/ Filename

RenderSpec == RenderInit /\ [][RenderNext]_vars

(***************************************************************************)
(* Properties of Scan                                                      *)
(***************************************************************************)
\* The bytes of a recorded range
RangeBytes(r) == Slice(buffer, r.start, r.start + r.length)

\* The two ranges Scan is to return for TwoFramed(ma, mb)
ExpectedTwo(ma, mb) ==
    <<[start |-> Len(AppendVarint(Len(ma))), length |-> Len(ma)],
      [start |-> Len(Framed(ma)) + Len(AppendVarint(Len(mb))), length |-> Len(mb)]>>

TwoRangesExact(ma, mb) ==
    /\ results = ExpectedTwo(ma, mb)
    /\ RangeBytes(results[1]) = ma
    /\ RangeBytes(results[2]) = mb

\* C1: for a buffer of two descriptor messages for a.proto and b.proto,
\* each right behind a varint of its own byte length and back to back, Scan
\* returns exactly two ranges, the bytes of the first message and the bytes
\* of the second, without any length prefix byte.
C1_TwoFramedExact ==
    \A ma \in DescriptorsOf(97), mb \in DescriptorsOf(98) :
        (pc = "done" /\ buffer = TwoFramed(ma, mb)) => TwoRangesExact(ma, mb)

\* Two framed descriptors of 57 bytes each: the start of the first one, at
\* offset 1, has no length prefix tried and its consumption fails; only the
\* second one is returned
C1_Witness ==
    /\ pc = "done"
    /\ buffer = TwoFramed(Descriptor(97, EdgePad, FALSE), Descriptor(98, EdgePad, FALSE))
    /\ Len(buffer) = 116
    /\ results = <<[start |-> 59, length |-> 57]>>
    /\ log[1].kind = "error"

\* C2: Scan terminates: a finished iteration of the main loop (skip, record
\* by prefix, record by consumption, abandon after an error) leaves a
\* strictly shorter suffix of data, a failed candidate of the backward search
\* strictly decreases searchStart without leaving the buffer.
C2_Terminates ==
    /\ [][/\ (pc = "decide" =>
                /\ pc' = "find"
                /\ Len(data') < Len(data)
                /\ data' = Drop(data, Len(data) - Len(data')))
          /\ (pc = "search" /\ pc' = "search" =>
                searchStart' < searchStart /\ searchStart' >= 0)
          /\ (pc = "find" => data' = data)]_vars

C2_Witness ==
    /\ pc = "done"
    /\ \A k \in {"skip", "consumed", "error"} :
          \E i \in 1..Len(log) : log[i].kind = k

\* C3: the recorded ranges are in strictly increasing offset order and do
\* not overlap: each starts at or after the end of the one before it.
C3_Disjoint ==
    \A i \in 1..(Len(results) - 1) :
        /\ results[i].start < results[i + 1].start
        /\ results[i].start + results[i].length <= results[i + 1].start

C3_Witness ==
    /\ pc = "done"
    /\ Len(results) = 2
    /\ results[1].start + results[1].length < results[2].start

\* No occurrence of the marker anywhere in b
NoMarker(b) == \A i \in 1..(Len(b) - 5) : SubSeq(b, i, i + 5) # scan

\* C4: for a buffer without any occurrence of ".proto", Scan returns no
\* range.
C4_NoMarkerNoRange ==
    (pc = "done" /\ NoMarker(buffer)) => (results = <<>> /\ log = <<>>)

C4_Witness ==
    /\ pc = "done"
    /\ NoMarker(buffer)
    /\ \E i \in 1..(Len(buffer) - 4) : SubSeq(buffer, i, i + 4) = Drop(scan, 1)
    /\ \E i \in 1..Len(buffer) : buffer[i] = magicByte

\* The varint after the tag at pos is valid and the length it declares ends
\* exactly at the end of the marker at protoIndex
DeclaredEndsAtMarker(d, pos, protoIndex) ==
    LET v == ConsumeVarint(Drop(d, pos + 1))
    IN  v.n >= 0 /\ Small(v) /\ pos + 1 + v.n + v.lo = protoIndex + 6

\* Every 0x0A before the marker has an invalid varint after it or declares
\* a length that does not end at the end of the marker
OnlyBadTagsBefore(d, protoIndex) ==
    \A p \in 0..(protoIndex - 1) :
        At(d, p) = 10 => ~DeclaredEndsAtMarker(d, p, protoIndex)

\* C5: when every 0x0A before a marker is followed by an invalid varint or
\* by a declared length that does not end at the end of the marker, Scan
\* records nothing for that marker and goes on with the buffer one byte
\* after the first byte of the marker.
C5_BadTagsSkip ==
    [][(pc = "decide" /\ OnlyBadTagsBefore(data, index)) =>
          /\ start = -1
          /\ results' = results
          /\ data' = Drop(data, index + 1)
          /\ pc' = "find"]_vars

C5_Witness ==
    /\ pc = "find"
    /\ log # <<>>
    /\ LET e == log[Len(log)]
       IN  /\ e.kind = "skip"
           /\ totalOffset = e.marker + 1
           /\ \E p \in e.base..(e.marker - 1) :
                 /\ At(buffer, p) = 10
                 /\ ConsumeVarint(Drop(buffer, p + 1)).n = errCodeOverflow
           /\ \E p \in e.base..(e.marker - 1) :
                 /\ At(buffer, p) = 10
                 /\ ConsumeVarint(Drop(buffer, p + 1)).n > 0

\* C6: when consumeBytes from a valid start fails with an error other than
\* "invalid field number", Scan records no range for that marker, keeps the
\* ranges recorded so far and resumes one byte after the first byte of the
\* marker.
C6_ErrorAbandons ==
    [][(/\ pc = "decide"
        /\ start # -1
        /\ ~(prefixLen > 0 /\ start + prefixLen <= Len(data))
        /\ \E detrand \in BOOLEAN : consumeBytes(data, start, detrand).stop = "error") =>
          /\ results' = results
          /\ data' = Drop(data, index + 1)
          /\ pc' = "find"]_vars

C6_Witness ==
    /\ pc = "done"
    /\ Len(log) = 3
    /\ log[1].kind = "consumed"
    /\ log[2].kind = "error"
    /\ log[3].kind = "consumed"
    /\ log[3].start > log[2].marker
    /\ Len(results) = 2

(***************************************************************************)
(* Properties of the Renderer                                              *)
(***************************************************************************)
\* The number of places of text where sub stands
Count(s, sub) ==
    Cardinality({i \in 1..(Len(s) - Len(sub) + 1) : SubSeq(s, i, i + Len(sub) - 1) = sub})

\* The messages of the file that have fields: the first message and the
\* messages nested in it, with their path, full name and nesting depth
Contexts ==
    {[m |-> descriptorpb.message_type[1], path |-> <<4, 0>>,
      full |-> ChildName(descriptorpb.package, descriptorpb.message_type[1].name),
      depth |-> 1]}
    \cup {[m |-> descriptorpb.message_type[1].nested_type[n], path |-> <<4, 0, 3, n - 1>>,
           full |-> ChildName(ChildName(descriptorpb.package,
                                        descriptorpb.message_type[1].name),
                              descriptorpb.message_type[1].nested_type[n].name),
           depth |-> 2] :
             n \in 1..Len(descriptorpb.message_type[1].nested_type)}

\* The type of a field as a .proto file names it: the kind of a scalar, the
\* dotted full name of a message or an enum
TypeText(field) ==
    IF field.type \in {"message", "enum"} THEN field.type_name ELSE field.type

\* The field is a map: its type is a nested message marked as a map entry
MapEntries(c, field) ==
    {n \in 1..Len(c.m.nested_type) :
        /\ c.m.nested_type[n].map_entry
        /\ field.type = "message"
        /\ field.label = "repeated"
        /\ field.type_name = "." \o c.full \o "." \o c.m.nested_type[n].name}

\* The line of a map field: map<keyType, valueType> name = number;
MapLine(c, field, n) ==
    "map<" \o TypeText(c.m.nested_type[n].field[1]) \o ", "
    \o TypeText(c.m.nested_type[n].field[2]) \o "> "
    \o field.name \o " = " \o Itoa(field.number) \o ";"

\* C7: a field whose type is a map is rendered as
\* `map<keyType, valueType> name = number;`, key and value types named as
\* any other field type, and not as a repeated field of its entry message.
C7_MapFieldAsMap ==
    rpc = "read" =>
        \A c \in Contexts : \A i \in 1..Len(c.m.field) : \A n \in MapEntries(c, c.m.field[i]) :
            /\ StrContains(text, MapLine(c, c.m.field[i], n))
            /\ ~StrContains(text, "repeated " \o c.m.field[i].type_name)

\* message M { int32 a = 1; map<string, int32> m = 4; } comes out with the
\* map field as a repeated field of its entry message
C7_Witness ==
    /\ rpc = "read"
    /\ descriptorpb = PlainFile("proto3", <<Shape(3, <<>>)>>, <<>>)
    /\ StrContains(text, "\n  repeated .pkg.M.MEntry m = 4;\n")
    /\ ~StrContains(text, "map<")

\* The text of the range [lower, upperExclusive) after `reserved `
ReservedText(lower, upperExclusive) ==
    IF upperExclusive - lower = 1 THEN Itoa(lower)
    ELSE IF upperExclusive - 1 = 536870911 THEN Itoa(lower) \o " to max"
    ELSE Itoa(lower) \o " to " \o Itoa(upperExclusive - 1)

\* The lines of the ranges rs[i..], in order, at two spaces of indentation
RECURSIVE ReservedLines(_, _)
ReservedLines(rs, i) ==
    IF i > Len(rs) THEN ""
    ELSE "  reserved " \o ReservedText(rs[i][1], rs[i][2]) \o ";\n" \o ReservedLines(rs, i + 1)

\* C8: the reserved ranges [lower, upperExclusive) of a message are
\* rendered, in order, as `reserved lower;` when the range has one member
\* and else as `reserved lower to upperExclusive-1;`, with `max` in place
\* of 536870911; there is no other line of reserved numbers, and the
\* descriptor keeps its ranges.
C8_ReservedRanges ==
    (rpc = "read" /\ descriptorpb.message_type[1].reserved_range # <<>>) =>
        /\ StrContains(text, "\";\n" \o ReservedLines(descriptorpb.message_type[1].reserved_range, 1)
                             \o "  ")
        /\ Count(text, "reserved ") =
              Len(descriptorpb.message_type[1].reserved_range)
              + Len(descriptorpb.message_type[1].reserved_name)
        /\ definition.pb = descriptorpb
        /\ definition.pb.message_type[1].reserved_range
              = descriptorpb.message_type[1].reserved_range

C8_Witness ==
    /\ rpc = "read"
    /\ descriptorpb.message_type[1].reserved_range = <<<<5, 6>>, <<9, 536870912>>>>
    /\ StrContains(text, "  reserved 5;\n  reserved 9 to max;\n")
    /\ Len(descriptorpb.message_type[1].nested_type) = 1

\* The members of oneof k (0-based) of message m, as indices into m.field
Members(m, k) == {i \in 1..Len(m.field) : m.field[i].oneof_index = k}

\* Oneof k of m is the single-member oneof of a proto3 optional field
Synthetic(m, k) ==
    /\ descriptorpb.syntax = "proto3"
    /\ Cardinality(Members(m, k)) = 1
    /\ \A i \in Members(m, k) : m.field[i].proto3_optional

\* The locations recorded at path
LocationsAt(path) ==
    {i \in 1..Len(descriptorpb.locations) : descriptorpb.locations[i].path = path}

\* The texts a comment record would show up with: each of its leading and
\* detached lines and its trimmed trailing comment, after `//`
RECURSIVE DetachedLines(_)
DetachedLines(ds) ==
    IF Len(ds) = 0 THEN {}
    ELSE {"//" \o StrSplit(TrimSuffix(ds[1], "\n"), "\n")[j] :
             j \in 1..Len(StrSplit(TrimSuffix(ds[1], "\n"), "\n"))}
         \cup DetachedLines(Tail(ds))

CommentMarks(loc) ==
    (IF loc.leading_comments = "" THEN {}
     ELSE {"//" \o StrSplit(TrimSuffix(loc.leading_comments, "\n"), "\n")[j] :
              j \in 1..Len(StrSplit(TrimSuffix(loc.leading_comments, "\n"), "\n"))})
    \cup (IF TrimSpace(loc.trailing_comments) = "" THEN {}
          ELSE {"//" \o TrimSpace(loc.trailing_comments)})
    \cup DetachedLines(loc.leading_detached_comments)

\* The line of the optional field f, without its indentation
OptionalLine(f) ==
    "optional " \o TypeText(f) \o " " \o f.name \o " = " \o Itoa(f.number) \o ";"

\* C9: a synthetic oneof is never rendered as a `oneof name {` block; its
\* one field is rendered exactly once, as `optional type name = n;` at the
\* indentation of the fields of its message, and no comment recorded at the
\* path of the oneof is rendered.
C9_SyntheticOneof ==
    rpc = "read" =>
        \A c \in Contexts : \A k \in 0..(Len(c.m.oneof_decl) - 1) :
            Synthetic(c.m, k) =>
                /\ ~StrContains(text, "oneof " \o c.m.oneof_decl[k + 1])
                /\ \A i \in Members(c.m, k) :
                      /\ Count(text, OptionalLine(c.m.field[i])) = 1
                      /\ StrContains(text, "\n" \o Repeat("  ", c.depth)
                                           \o OptionalLine(c.m.field[i]))
                /\ \A l \in LocationsAt(c.path \o <<8, k>>) :
                      \A mark \in CommentMarks(descriptorpb.locations[l]) :
                          ~StrContains(text, mark)

C9_Witness ==
    /\ rpc = "read"
    /\ Synthetic(descriptorpb.message_type[1], 0)
    /\ \E l \in LocationsAt(<<4, 0, 8, 0>>) :
          /\ descriptorpb.locations[l].leading_comments # ""
          /\ descriptorpb.locations[l].trailing_comments # ""
          /\ descriptorpb.locations[l].leading_detached_comments # <<>>
    /\ \E l \in LocationsAt(<<4, 0, 2, 1>>) : descriptorpb.locations[l].leading_comments # ""
    /\ StrContains(text, "\n  optional int32 o = 5; //of o\n")

\* The comment record in force at path: the last one recorded there
LastAt(path) == descriptorpb.locations[Max(LocationsAt(path))]

\* The label of a field of a proto3 file
Label(f) ==
    IF f.proto3_optional THEN "optional "
    ELSE IF f.label = "repeated" THEN "repeated "
    ELSE ""

\* The indentation of field i of the message of context c: a member of a
\* oneof block stands one level deeper
FieldIndent(c, i) ==
    Repeat("  ", IF c.m.field[i].oneof_index >= 0
                    /\ ~Synthetic(c.m, c.m.field[i].oneof_index)
                 THEN c.depth + 1 ELSE c.depth)

\* The n lines of the leading comment ls above a field
RECURSIVE LeadingBlock(_, _, _)
LeadingBlock(ind, ls, j) ==
    IF j > Len(ls) THEN ""
    ELSE ind \o "//" \o ls[j] \o "\n" \o LeadingBlock(ind, ls, j + 1)

\* What follows the `;` of the field: the trimmed trailing comment when it
\* is not empty and has no line break
TrailingPart(t) ==
    IF TrimSpace(t) # "" /\ \A j \in 1..Len(TrimSpace(t)) : Char(TrimSpace(t), j) # "\n"
    THEN " //" \o TrimSpace(t)
    ELSE ""

\* The lines of field i of context c under the comment record loc, whose
\* leading comment has the lines ls
FieldBlock(c, i, loc, ls) ==
    "\n" \o LeadingBlock(FieldIndent(c, i), ls, 1)
    \o FieldIndent(c, i) \o Label(c.m.field[i]) \o TypeText(c.m.field[i]) \o " "
    \o c.m.field[i].name \o " = " \o Itoa(c.m.field[i].number) \o ";"
    \o TrailingPart(loc.trailing_comments) \o "\n"

\* C10: a field with a comment record has the n lines of its leading
\* comment right above it, each the indentation of the field, `//` and the
\* text of the line; its trailing comment follows the field on its line
\* only when, trimmed, it has no line break, and a trailing comment of two
\* or more lines is not rendered at all.
C10_FieldComments ==
    (rpc = "read" /\ descriptorpb.syntax = "proto3") =>
        \A c \in Contexts : \A i \in 1..Len(c.m.field) :
            LocationsAt(c.path \o <<2, i - 1>>) # {} =>
                \A ls \in LineSeqs :
                    LastAt(c.path \o <<2, i - 1>>).leading_comments = CommentOf(ls) =>
                        StrContains(text,
                                    FieldBlock(c, i, LastAt(c.path \o <<2, i - 1>>), ls))

C10_Witness ==
    /\ rpc = "read"
    /\ LocationsAt(<<4, 0, 3, 0, 2, 0>>) # {}
    /\ LastAt(<<4, 0, 3, 0, 2, 0>>).leading_comments = " one\ntwo\n"
    /\ LastAt(<<4, 0, 3, 0, 2, 0>>).trailing_comments = " t1\n t2\n"
    /\ StrContains(text, "{\n    // one\n    //two\n    int32 v = 1;\n")

(***************************************************************************)
(* Properties of Filename                                                  *)
(***************************************************************************)
\* The go_package option of the descriptor handed in, "" when absent
GoPackageOption ==
    IF descriptorpb.options.nil THEN ""
    ELSE IF descriptorpb.options.set["GoPackage"].kind = "nil" THEN ""
    ELSE descriptorpb.options.set["GoPackage"].s

HasSemicolon(g) == \E i \in 1..Len(g) : Char(g, i) = ";"

\* The part of g before its first `;`
BeforeSemicolon(g) ==
    SubSeq(g, 1, (CHOOSE i \in 1..Len(g) :
                     Char(g, i) = ";" /\ \A j \in 1..(i - 1) : Char(g, j) # ";") - 1)

\* The non-empty elements of a slash-separated path, in order
RECURSIVE NonEmpty(_)
NonEmpty(es) ==
    IF Len(es) = 0 THEN <<>>
    ELSE IF Head(es) = "" THEN NonEmpty(Tail(es))
    ELSE <<Head(es)>> \o NonEmpty(Tail(es))

PathElements(p) == NonEmpty(StrSplit(p, "/"))

\* The last path component of a declared path: its last non-empty element,
\* "/" for a path of slashes only
LastComponent(p) ==
    IF Len(PathElements(p)) = 0 THEN "/"
    ELSE PathElements(p)[Len(PathElements(p))]

\* The elements of a path with "." dropped and ".." taking back the element
\* before it; ".." at the front stays, unless the path is rooted
RECURSIVE Resolved(_, _, _)
Resolved(es, kept, rooted) ==
    IF Len(es) = 0 THEN kept
    ELSE IF Head(es) = "." THEN Resolved(Tail(es), kept, rooted)
    ELSE IF Head(es) # ".." THEN Resolved(Tail(es), Append(kept, Head(es)), rooted)
    ELSE IF Len(kept) > 0 /\ kept[Len(kept)] # ".."
    THEN Resolved(Tail(es), SubSeq(kept, 1, Len(kept) - 1), rooted)
    ELSE IF rooted THEN Resolved(Tail(es), kept, rooted)
    ELSE Resolved(Tail(es), Append(kept, ".."), rooted)

\* Directory dir and name joined as a path, in shortest form
JoinedPath(dir, name) ==
    IF Len(dir) > 0 /\ Char(dir, 1) = "/"
    THEN "/" \o StrJoin(Resolved(PathElements(dir) \o PathElements(name), <<>>, TRUE), "/")
    ELSE IF Len(dir) = 0 /\ Char(name, 1) = "/"
    THEN "/"
    ELSE IF Len(Resolved(PathElements(dir) \o PathElements(name), <<>>, FALSE)) = 0
    THEN "."
    ELSE StrJoin(Resolved(PathElements(dir) \o PathElements(name), <<>>, FALSE), "/")

\* C11: Filename() returns the declared path of the descriptor unchanged
\* when the go_package option is absent or has no `;`; when go_package has
\* a `;`, it returns the part of go_package before the first `;` joined as
\* a path with the last path component of the declared path.
C11_Filename ==
    rpc = "named" =>
        filename = IF HasSemicolon(GoPackageOption)
                   THEN JoinedPath(BeforeSemicolon(GoPackageOption),
                                   LastComponent(descriptorpb.name))
                   ELSE descriptorpb.name

\* Filename() was called for d/a.proto with go_package "x/y;p" and gave
\* x/y/a.proto
C11_Witness ==
    /\ rpc = "named"
    /\ descriptorpb.name = "d/a.proto"
    /\ GoPackageOption = "x/y;p"
    /\ filename = "x/y/a.proto"

(***************************************************************************)
(* Properties of the length prefix                                         *)
(***************************************************************************)
\* The w bytes [S-w, S) of d are one whole varint: all but the last carry
\* the continuation bit
ExactVarint(d, S, w) ==
    /\ \A i \in (S - w)..(S - 2) : At(d, i) >= 128
    /\ At(d, S - 1) < 128

\* The value of the varint in the w bytes [S-w, S) of d
RECURSIVE VarintValue(_, _, _)
VarintValue(d, S, w) ==
    IF w = 0 THEN 0
    ELSE (At(d, S - w) % 128) + 128 * VarintValue(d, S, w - 1)

\* The length of the filename behind the tag at S: the bytes from behind
\* its length varint to the end of the marker
FilenameLength(d, S, marker) ==
    (marker + Len(scan)) - (S + 1 + ConsumeVarint(Drop(d, S + 1)).n)

\* The widths that qualify as the outer length prefix of the start S
QualifyingWidths(d, S, marker) ==
    {w \in 1..4 :
        /\ w <= S
        /\ ExactVarint(d, S, w)
        /\ VarintValue(d, S, w) >= FilenameLength(d, S, marker) + MinMargin
        /\ S + VarintValue(d, S, w) <= Len(d)}

\* C12: once a valid start S >= 1 is found, the longest width w in
\* {4,3,2,1} with w <= S whose w bytes [S-w, S) are one varint of value
\* V >= filenameLength + 50 with S + V inside the buffer is taken as the
\* outer length prefix and the range recorded is exactly [S, S+V);
\* consumeBytes is used only when no such width qualifies.
C12_PrefixWidths ==
    [][(pc = "decide" /\ start >= 1) =>
          IF QualifyingWidths(data, start, index) # {}
          THEN /\ prefixBytes = Max(QualifyingWidths(data, start, index))
               /\ results' = Append(results,
                      [start  |-> totalOffset + start,
                       length |-> VarintValue(data, start,
                                     Max(QualifyingWidths(data, start, index)))])
               /\ data' = Drop(data, start + VarintValue(data, start,
                                        Max(QualifyingWidths(data, start, index))))
          ELSE /\ prefixLen = 0
               /\ log'[Len(log')].kind \in {"consumed", "error"}]_vars

\* A start at offset 1 behind the one-byte varint 57 of a 57-byte message,
\* 59 bytes to the end of the buffer: width 1 qualifies, no prefix was
\* taken and consumeBytes recorded all 59 bytes
C12_Witness ==
    /\ pc = "done"
    /\ buffer = <<57>> \o NameRecord(97) \o PadField(EdgePad + 2)
    /\ QualifyingWidths(buffer, 1, 3) = {1}
    /\ VarintValue(buffer, 1, 1) = 57
    /\ log[1].kind = "consumed"
    /\ results = <<[start |-> 1, length |-> 59]>>

(***************************************************************************)
(* Properties of findValidStartWithLength                                  *)
(***************************************************************************)
\* Every byte of d in [lo, hi) is printable ASCII
Printable(d, lo, hi) == \A i \in lo..(hi - 1) : At(d, i) >= 32 /\ At(d, i) <= 126

\* The 0x0A at S passes the checks against the marker: it lies before the
\* marker, the length declared right after it ends just after the marker,
\* and the bytes from behind the length varint to the end of the marker are
\* printable
PassesChecks(d, S, marker) ==
    /\ At(d, S) = 10
    /\ S < marker
    /\ DeclaredEndsAtMarker(d, S, marker)
    /\ Printable(d, S + 1 + ConsumeVarint(Drop(d, S + 1)).n, marker + Len(scan))

\* The 0x0A bytes of d before offset lim
TagsBefore(d, lim) == {p \in 0..(lim - 1) : At(d, p) = 10}

\* The bytes 0x0A 0x0A "abcd.proto"
Nested == <<10, 10, 97, 98, 99, 100>> \o scan

\* C13: findValidStartWithLength returns a start S only if data[S] is 0x0A
\* before the marker, the varint right after S declares a length that ends
\* exactly just after the marker and every byte from behind that varint to
\* the end of the marker is printable ASCII.  A 0x0A that fails a check does
\* not end the search: it goes on with the nearest 0x0A strictly before it,
\* and -1 is returned only when no 0x0A before the marker passes; for
\* 0x0A 0x0A "abcd.proto" the start is the first 0x0A.
C13_ValidStart ==
    /\ [](pc = "decide" =>
            /\ (start # -1 => PassesChecks(data, start, index))
            /\ (start = -1 => \A p \in TagsBefore(data, index) :
                                 ~PassesChecks(data, p, index))
            /\ (data = Nested => start = 0))
    /\ [][(pc = "search" /\ pc' = "search") =>
            /\ TagsBefore(data, searchStart) # {}
            /\ searchStart' = Max(TagsBefore(data, searchStart))
            /\ ~PassesChecks(data, searchStart', index)]_vars

\* The search is over for 0x0A 0x0A "abcd.proto": the second 0x0A, whose
\* declared length 97 overshoots, was passed over and the first is the start
C13_Witness ==
    /\ pc = "decide"
    /\ data = Nested
    /\ index = 6
    /\ searchStart = 1
    /\ ~PassesChecks(data, 1, index)
    /\ start = 0

(***************************************************************************)
(* Properties of consumeBytes                                              *)
(***************************************************************************)
\* The record decoded at offset p of d: its field number and its length in
\* bytes, or an error code as length
RecordAt(d, p) == ConsumeField(Drop(d, p))

\* The bytes [p, e) of d are a run of whole records, decoded one after the
\* other, with no field-1 record after another field-1 record (seen: one
\* lies before p)
RECURSIVE WholeRecords(_, _, _, _)
WholeRecords(d, p, e, seen) ==
    IF p >= e THEN p = e
    ELSE /\ RecordAt(d, p).n > 0
         /\ ~(RecordAt(d, p).num = 1 /\ seen)
         /\ WholeRecords(d, p + RecordAt(d, p).n, e, seen \/ RecordAt(d, p).num = 1)

\* The run of records from S ends at e without error: the buffer ends, or
\* the next record is a second field-1 record, or decoding reports an
\* invalid field number, or it advances by zero bytes
NormalStop(d, e) ==
    \/ e >= Len(d)
    \/ RecordAt(d, e).n > 0 /\ RecordAt(d, e).num = 1
    \/ RecordAt(d, e).n = errCodeFieldNumber
    \/ RecordAt(d, e).n = 0

\* What the iteration that ends with this step has logged
Logged(l) == l[Len(l)]

\* C14: consumeBytes from a start S consumes whole records one at a time
\* and returns the bytes consumed so far, without error, at the first of: a
\* field-1 record after a field-1 record of this pass (not consumed), a
\* decode attempt reporting "invalid field number", a step of zero bytes,
\* the end of the buffer.  The range recorded is [S, S+consumed) and holds
\* at least the first field-1 record; any other decode failure is an error.
C14_Consumption ==
    [][(pc = "decide" /\ start # -1 /\ Logged(log').kind \in {"consumed", "error"}) =>
          /\ Logged(log').start = totalOffset + start
          /\ WholeRecords(data, start, start + Logged(log').length, FALSE)
          /\ IF Logged(log').kind = "consumed"
             THEN /\ NormalStop(data, start + Logged(log').length)
                  /\ results' = Append(results, [start  |-> totalOffset + start,
                                                 length |-> Logged(log').length])
                  /\ RecordAt(data, start) = [num |-> 1, n |-> (index + Len(scan)) - start]
                  /\ Logged(log').length >= RecordAt(data, start).n
             ELSE /\ ~NormalStop(data, start + Logged(log').length)
                  /\ results' = results]_vars

\* a.proto with a syntax record, then a.proto again: the first pass stops
\* before the second field-1 record, the second pass at the end of the
\* buffer
C14_Witness ==
    /\ pc = "done"
    /\ buffer = NameRecord(97) \o SyntaxField \o NameRecord(97)
    /\ RecordAt(buffer, 17).num = 1
    /\ results = <<[start |-> 0, length |-> 17], [start |-> 17, length |-> 9]>>
    /\ log[1].kind = "consumed"
    /\ log[2].kind = "consumed"

(***************************************************************************)
(* Properties of the recorded ranges                                       *)
(***************************************************************************)
\* The marker occurs at offset i of b
MarkerAt(b, i) ==
    /\ i >= 0
    /\ i + Len(scan) <= Len(b)
    /\ \A k \in 1..Len(scan) : b[i + k] = scan[k]

\* The number of marker occurrences in b
MarkerCount(b) == Cardinality({i \in 0..(Len(b) - Len(scan)) : MarkerAt(b, i)})

\* The ranges of the iterations that recorded one, in order
RECURSIVE RecordedBy(_)
RecordedBy(l) ==
    IF Len(l) = 0 THEN <<>>
    ELSE IF Head(l).kind \in {"prefix", "consumed"}
    THEN <<[start |-> Head(l).start, length |-> Head(l).length]>> \o RecordedBy(Tail(l))
    ELSE RecordedBy(Tail(l))

\* C15: every range [S, S+length) Scan records lies inside the buffer
\* (0 <= S, S + length <= buffer length), has length > 0 and holds the whole
\* marker occurrence that anchored it (S before the marker, S + length at
\* or after its end); the offsets Scan slices with stay inside the data;
\* every loop iteration uses up at least one marker occurrence, so there are
\* at most as many ranges as marker occurrences in the buffer.
C15_RangesInside ==
    /\ totalOffset >= 0 /\ totalOffset <= Len(buffer)
    /\ data = Drop(buffer, totalOffset)
    /\ pc = "decide" =>
          /\ MarkerAt(data, index)
          /\ start >= -1 /\ start < index
          /\ prefixLen >= 0 /\ start + prefixLen <= Len(data)
    /\ \A i \in 1..Len(results) :
          /\ results[i].start >= 0
          /\ results[i].length > 0
          /\ results[i].start + results[i].length <= Len(buffer)
    /\ results = RecordedBy(log)
    /\ \A j \in 1..Len(log) :
          /\ MarkerAt(buffer, log[j].marker)
          /\ log[j].base <= log[j].marker
          /\ log[j].kind \in {"prefix", "consumed"} =>
                /\ log[j].base <= log[j].start
                /\ log[j].start < log[j].marker
                /\ log[j].start + log[j].length >= log[j].marker + Len(scan)
    /\ Len(log) + MarkerCount(data) <= MarkerCount(buffer)
    /\ Len(results) <= MarkerCount(buffer)

\* Scan is over for a buffer with more marker occurrences than ranges: one
\* range was taken by its length prefix and runs to the very end of the
\* buffer, another iteration recorded nothing
C15_Witness ==
    /\ pc = "done"
    /\ Len(results) >= 1
    /\ Len(results) < MarkerCount(buffer)
    /\ Len(log) > Len(results)
    /\ \E j \in 1..Len(log) :
          /\ log[j].kind = "prefix"
          /\ log[j].start > log[j].base
          /\ log[j].start + log[j].length = Len(buffer)

====
